---- MODULE Spec2Model ----
(***************************************************************************)
(* Version set and compaction planning of db/version_set.cc.               *)
(*                                                                         *)
(* Heap objects (Version, FileMetaData) are functions from object ids to   *)
(* records; a freed object leaves the function's domain.  Internal keys    *)
(* are records [u, t]: user key u and packed (sequence, type) tag t; the   *)
(* internal order is u ascending, then t descending.                       *)
(***************************************************************************)
EXTENDS Integers, Sequences, FiniteSets, TLC

VARIABLES
    vset,       \* the VersionSet's own members
    versions,   \* heap of Version objects: id -> Version
    metas,      \* heap of FileMetaData objects: id -> FileMetaData
    alloc,      \* [vid, mid]: the ids the next new Version / FileMetaData gets
    asserts,    \* names of assertions that have failed in this process
    disk,       \* [manifests, CURRENT]: the files of the database directory
    call,       \* the LogAndApply call in progress
    readers,    \* Versions pinned by readers (a sequence of Version ids)
    phase,      \* "constructed" | "open" | "failed" | "aborted"
    ret         \* what the last finished LogAndApply / Recover returned

vars == <<vset, versions, metas, alloc, asserts, disk, call, readers, phase, ret>>

---------------------------------------------------------------------------
(* Program constants *)

kNumLevels == 7
kL0_CompactionTrigger == 4
kMaxMemCompactLevel == 2
kTargetFileSize == 2 * 1048576
kMaxGrandParentOverlapBytes == 10 * kTargetFileSize
kExpandedCompactionByteSizeLimit == 25 * kTargetFileSize

Levels == 0 .. (kNumLevels - 1)

---------------------------------------------------------------------------
(* Bounds of the model *)

MaxFileNumber == 4
MaxRecords == 3
MaxReaders == 1
MaxUserKey == 2
MaxTag == 3

---------------------------------------------------------------------------
(* Small helpers on sequences and sets *)

Range(s) == { s[i] : i \in 1 .. Len(s) }

RECURSIVE Remove(_, _)
Max(S) == CHOOSE x \in S : \A y \in S : y <= x

Remove(s, x) ==
    IF s = <<>> THEN <<>>
    ELSE IF Head(s) = x THEN Tail(s)
    ELSE <<Head(s)>> \o Remove(Tail(s), x)

RECURSIVE SumSeq(_)
SumSeq(s) == IF s = <<>> THEN 0 ELSE Head(s) + SumSeq(Tail(s))

RECURSIVE Pow10(_)
Pow10(e) == IF e = 0 THEN 1 ELSE 10 * Pow10(e - 1)

Without(h, x) == [ y \in DOMAIN h \ {x} |-> h[y] ]

With(h, x, val) == [ y \in DOMAIN h \cup {x} |-> IF y = x THEN val ELSE h[y] ]

Null == <<>>
Some(x) == <<x>>
IsNull(p) == Len(p) = 0
Val(p) == p[1]

---------------------------------------------------------------------------
(* Internal keys and the comparators *)

IKey(u, t) == [u |-> u, t |-> t]

\* Comparator::Compare on user keys
UserCompare(a, b) == IF a < b THEN -1 ELSE IF a > b THEN 1 ELSE 0

\* InternalKeyComparator::Compare: user key ascending, then tag descending
Compare(a, b) ==
    IF UserCompare(a.u, b.u) # 0 THEN UserCompare(a.u, b.u)
    ELSE IF a.t > b.t THEN -1
    ELSE IF a.t < b.t THEN 1
    ELSE 0

\* InternalKey(user_key, kMaxSequenceNumber, kValueTypeForSeek)
SeekKey(u) == IKey(u, MaxTag)

\* InternalKey(user_key, 0, static_cast<ValueType>(0))
LimitKey(u) == IKey(u, 0)

---------------------------------------------------------------------------
(* File sizes *)

RECURSIVE TotalFileSizeFrom(_, _, _)
TotalFileSizeFrom(F, files, i) ==
    IF i > Len(files) THEN 0
    ELSE F[files[i]].file_size + TotalFileSizeFrom(F, files, i + 1)

TotalFileSize(F, files) == TotalFileSizeFrom(F, files, 1)

MaxFileSizeForLevel(level) == kTargetFileSize

\* MaxBytesForLevel(level) is 10 * 1048576.0 * 10^MaxBytesExp(level); the
\* product is kept apart because it exceeds 32 bits from level 4 on.
MaxBytesBase == 10 * 1048576

RECURSIVE MaxBytesExp(_)
MaxBytesExp(level) == IF level > 1 THEN 1 + MaxBytesExp(level - 1) ELSE 0

---------------------------------------------------------------------------
(* FindFile and the overlap queries of a Version *)

\* The binary search moving left past a file whose largest key is the target
RECURSIVE FindFileLoop_PastEqual(_, _, _, _, _)
FindFileLoop_PastEqual(F, files, key, left, right) ==
    IF left < right
    THEN LET mid == (left + right) \div 2
             f == F[files[mid + 1]]
         IN  IF Compare(f.largest, key) <= 0
             THEN FindFileLoop_PastEqual(F, files, key, mid + 1, right)
             ELSE FindFileLoop_PastEqual(F, files, key, left, mid)
    ELSE right

RECURSIVE FindFileLoop(_, _, _, _, _)
FindFileLoop(F, files, key, left, right) ==
    IF left < right
    THEN LET mid == (left + right) \div 2
             f == F[files[mid + 1]]
         IN  IF Compare(f.largest, key) < 0
             THEN FindFileLoop(F, files, key, mid + 1, right)
             ELSE FindFileLoop(F, files, key, left, mid)
    ELSE right

\* Index (from 0) of the file found by the binary search; Len(files) if none.
FindFile(F, files, key) == FindFileLoop(F, files, key, 0, Len(files))

\* user_key is a nullable user key
AfterFile(user_key, f) ==
    ~IsNull(user_key) /\ UserCompare(Val(user_key), f.largest.u) > 0

BeforeFile(user_key, f) ==
    ~IsNull(user_key) /\ UserCompare(Val(user_key), f.smallest.u) < 0

SomeFileOverlapsRange(F, disjoint_sorted_files, files, smallest_user_key, largest_user_key) ==
    IF ~disjoint_sorted_files
    THEN \E i \in 1 .. Len(files) :
            ~(AfterFile(smallest_user_key, F[files[i]])
              \/ BeforeFile(largest_user_key, F[files[i]]))
    ELSE LET index == IF ~IsNull(smallest_user_key)
                      THEN FindFile(F, files, SeekKey(Val(smallest_user_key)))
                      ELSE 0
         IN  IF index >= Len(files) THEN FALSE
             ELSE ~BeforeFile(largest_user_key, F[files[index + 1]])

OverlapInLevel(F, V, level, smallest_user_key, largest_user_key) ==
    SomeFileOverlapsRange(F, level > 0, V.files[level],
                          smallest_user_key, largest_user_key)

\* The scan widening the window of level 0 without starting over
RECURSIVE GetOverlappingLoop_NoRestart(_, _, _, _, _, _, _, _, _)
GetOverlappingLoop_NoRestart(F, files, level, hasBegin, hasEnd, ub, ue, i, inputs) ==
    IF i >= Len(files) THEN inputs
    ELSE LET f == F[files[i + 1]]
             file_start == f.smallest.u
             file_limit == f.largest.u
         IN  IF hasBegin /\ UserCompare(file_limit, ub) < 0
             THEN GetOverlappingLoop_NoRestart(F, files, level, hasBegin, hasEnd,
                                               ub, ue, i + 1, inputs)
             ELSE IF hasEnd /\ UserCompare(file_start, ue) > 0
             THEN GetOverlappingLoop_NoRestart(F, files, level, hasBegin, hasEnd,
                                               ub, ue, i + 1, inputs)
             ELSE GetOverlappingLoop_NoRestart(F, files, level, hasBegin, hasEnd,
                     IF level = 0 /\ hasBegin /\ UserCompare(file_start, ub) < 0
                     THEN file_start ELSE ub,
                     IF level = 0 /\ hasEnd /\ UserCompare(file_limit, ue) > 0
                     THEN file_limit ELSE ue,
                     i + 1, Append(inputs, files[i + 1]))

\* The scan of GetOverlappingInputs: i is the next index (from 0), ub / ue
\* are user_begin / user_end, inputs is the result so far.
RECURSIVE GetOverlappingLoop(_, _, _, _, _, _, _, _, _)
GetOverlappingLoop(F, files, level, hasBegin, hasEnd, ub, ue, i, inputs) ==
    IF i >= Len(files) THEN inputs
    ELSE LET f == F[files[i + 1]]
             file_start == f.smallest.u
             file_limit == f.largest.u
         IN  IF hasBegin /\ UserCompare(file_limit, ub) < 0
             THEN GetOverlappingLoop(F, files, level, hasBegin, hasEnd, ub, ue, i + 1, inputs)
             ELSE IF hasEnd /\ UserCompare(file_start, ue) > 0
             THEN GetOverlappingLoop(F, files, level, hasBegin, hasEnd, ub, ue, i + 1, inputs)
             ELSE IF level = 0 /\ hasBegin /\ UserCompare(file_start, ub) < 0
             THEN GetOverlappingLoop(F, files, level, hasBegin, hasEnd, file_start, ue, 0, <<>>)
             ELSE IF level = 0 /\ hasEnd /\ UserCompare(file_limit, ue) > 0
             THEN GetOverlappingLoop(F, files, level, hasBegin, hasEnd, ub, file_limit, 0, <<>>)
             ELSE GetOverlappingLoop(F, files, level, hasBegin, hasEnd, ub, ue, i + 1,
                                     Append(inputs, files[i + 1]))

\* begin and end are nullable internal keys
GetOverlappingInputs(F, V, level, begin, end) ==
    GetOverlappingLoop(F, V.files[level], level,
                       ~IsNull(begin), ~IsNull(end),
                       IF IsNull(begin) THEN 0 ELSE Val(begin).u,
                       IF IsNull(end) THEN 0 ELSE Val(end).u,
                       0, <<>>)

\* The loop stopping as soon as the bytes of level + 2 reach the limit
RECURSIVE PickLevelLoop_AtLimit(_, _, _, _, _)
PickLevelLoop_AtLimit(F, V, lo, hi, level) ==
    IF level < kMaxMemCompactLevel
    THEN IF OverlapInLevel(F, V, level + 1, Some(lo), Some(hi))
         THEN level
         ELSE LET overlaps == GetOverlappingInputs(F, V, level + 2,
                                                   Some(SeekKey(lo)), Some(LimitKey(hi)))
              IN  IF TotalFileSize(F, overlaps) >= kMaxGrandParentOverlapBytes
                  THEN level
                  ELSE PickLevelLoop_AtLimit(F, V, lo, hi, level + 1)
    ELSE level

RECURSIVE PickLevelLoop(_, _, _, _, _)
PickLevelLoop(F, V, lo, hi, level) ==
    IF level < kMaxMemCompactLevel
    THEN IF OverlapInLevel(F, V, level + 1, Some(lo), Some(hi))
         THEN level
         ELSE LET overlaps == GetOverlappingInputs(F, V, level + 2,
                                                   Some(SeekKey(lo)), Some(LimitKey(hi)))
              IN  IF TotalFileSize(F, overlaps) > kMaxGrandParentOverlapBytes
                  THEN level
                  ELSE PickLevelLoop(F, V, lo, hi, level + 1)
    ELSE level

PickLevelForMemTableOutput(F, V, smallest_user_key, largest_user_key) ==
    IF ~OverlapInLevel(F, V, 0, Some(smallest_user_key), Some(largest_user_key))
    THEN PickLevelLoop(F, V, smallest_user_key, largest_user_key, 0)
    ELSE 0

---------------------------------------------------------------------------
(* Versions, the live list and reference counts.  M is the process memory: *)
(* [vset, versions, metas, alloc, asserts].                                *)

NoScore == [num |-> -1, base |-> 1, exp |-> 0]

EmptyFiles == [l \in Levels |-> <<>>]

\* The allocator: new returns the lowest object id that is free
LeastFree(h) ==
    CHOOSE n \in 1 .. Cardinality(DOMAIN h) + 1 :
        n \notin DOMAIN h /\ \A m \in 1 .. n - 1 : m \in DOMAIN h

Heap(M) == [M EXCEPT !.alloc = [vid |-> LeastFree(M.versions), mid |-> LeastFree(M.metas)]]

\* new Version(vset): refs 0, no files, no compaction hints
NewVersion(M) ==
    Heap([M EXCEPT !.versions = With(@, M.alloc.vid,
                                [files |-> EmptyFiles, refs |-> 0,
                                 compaction_score |-> NoScore, compaction_level |-> -1,
                                 file_to_compact |-> 0, file_to_compact_level |-> -1])])

Fail(M, name) == [M EXCEPT !.asserts = @ \cup {name}]

Check(M, cond, name) == IF cond THEN M ELSE Fail(M, name)

RECURSIVE ConcatLevels(_, _)
ConcatLevels(files, level) ==
    IF level >= kNumLevels THEN <<>>
    ELSE files[level] \o ConcatLevels(files, level + 1)

\* The loop body of ~Version over the files of the Version, in order
RECURSIVE DropFileRefs(_, _, _)
DropFileRefs(M, fs, i) ==
    IF i > Len(fs) THEN M
    ELSE LET f == fs[i] IN
         IF f \notin DOMAIN M.metas
         THEN DropFileRefs(Fail(M, "use of a freed FileMetaData"), fs, i + 1)
         ELSE LET M1 == Check(M, M.metas[f].refs > 0, "f->refs > 0")
                  M2 == [M1 EXCEPT !.metas[f].refs = @ - 1]
              IN  DropFileRefs(IF M2.metas[f].refs <= 0
                               THEN Heap([M2 EXCEPT !.metas = Without(@, f)])
                               ELSE M2,
                               fs, i + 1)

\* Version::~Version
DestroyVersion(M, v) ==
    LET M1 == Check(M, M.versions[v].refs = 0, "refs_ == 0")
        M2 == [M1 EXCEPT !.vset.dummy_versions_ = Remove(@, v)]
        M3 == DropFileRefs(M2, ConcatLevels(M.versions[v].files, 0), 1)
    IN  Heap([M3 EXCEPT !.versions = Without(@, v)])

\* Version::Ref
Ref(M, v) == [M EXCEPT !.versions[v].refs = @ + 1]

\* Version::Unref
Unref(M, v) ==
    LET M1 == Check(M, M.versions[v].refs >= 1, "refs_ >= 1")
        M2 == [M1 EXCEPT !.versions[v].refs = @ - 1]
    IN  IF M2.versions[v].refs = 0 THEN DestroyVersion(M2, v) ELSE M2

\* VersionSet::AppendVersion; current_ = 0 is the NULL pointer
AppendVersion(M, v) ==
    LET M1 == Check(Check(M, M.versions[v].refs = 0, "v->refs_ == 0"),
                    v # M.vset.current_, "v != current_")
        M2 == IF M1.vset.current_ # 0 THEN Unref(M1, M1.vset.current_) ELSE M1
        M3 == Ref([M2 EXCEPT !.vset.current_ = v], v)
    IN  [M3 EXCEPT !.vset.dummy_versions_ = Append(@, v)]

\* AddLiveFiles reading current_ alone
AddLiveFiles_CurrentOnly(M) ==
    UNION { { M.metas[f].number : f \in Range(M.versions[M.vset.current_].files[l]) }
            : l \in Levels }

\* VersionSet::AddLiveFiles: walks the list from dummy_versions_.next_
AddLiveFiles(M) ==
    UNION { UNION { { M.metas[f].number : f \in Range(M.versions[v].files[l]) }
                    : l \in Levels }
            : v \in Range(M.vset.dummy_versions_) }

---------------------------------------------------------------------------
(* VersionSet::Builder.  B is the builder: [base, levels], where           *)
(* levels[l] = [deleted_files, added_files]; added_files is the std::set   *)
(* ordered by BySmallestKey, kept as the sequence of its iteration order.  *)

\* The order of the added files without the tie-break by file number
BySmallestKey_KeyOnly(F, f1, f2) == Compare(F[f1].smallest, F[f2].smallest) < 0

\* Builder::BySmallestKey::operator()
BySmallestKey(F, f1, f2) ==
    LET r == Compare(F[f1].smallest, F[f2].smallest)
    IN  IF r # 0 THEN r < 0 ELSE F[f1].number < F[f2].number

\* std::set::insert under BySmallestKey: no insertion when an equivalent
\* element is already in the set
FileSetInsert(F, added, f) ==
    IF \E i \in 1 .. Len(added) :
          ~BySmallestKey(F, added[i], f) /\ ~BySmallestKey(F, f, added[i])
    THEN added
    ELSE LET before == Cardinality({ i \in 1 .. Len(added) : BySmallestKey(F, added[i], f) })
         IN  SubSeq(added, 1, before) \o <<f>> \o SubSeq(added, before + 1, Len(added))

\* Builder::Builder
BuilderNew(M, base) ==
    [M |-> Ref(M, base),
     B |-> [base |-> base,
            levels |-> [l \in Levels |-> [deleted_files |-> {}, added_files |-> <<>>]]]]

RECURSIVE ApplyPointers(_, _, _)
ApplyPointers(M, ptrs, i) ==
    IF i > Len(ptrs) THEN M
    ELSE ApplyPointers([M EXCEPT !.vset.compact_pointer_[ptrs[i][1]] = Some(ptrs[i][2])],
                       ptrs, i + 1)

\* The seek allowance without the floor of 100
AllowedSeeks_NoFloor(file_size) == file_size \div 16384

\* f->allowed_seeks of a new file
AllowedSeeks(file_size) ==
    IF file_size \div 16384 < 100 THEN 100 ELSE file_size \div 16384

\* The loop leaving the number of a new file among the deleted ones
RECURSIVE ApplyNewFiles_KeepDeleted(_, _, _)
ApplyNewFiles_KeepDeleted(X, new_files, i) ==
    IF i > Len(new_files) THEN X
    ELSE LET level == new_files[i][1]
             d == new_files[i][2]
             f == X.M.alloc.mid
             obj == [number |-> d.number, file_size |-> d.file_size,
                     smallest |-> d.smallest, largest |-> d.largest,
                     refs |-> 1, allowed_seeks |-> AllowedSeeks(d.file_size)]
             M1 == Heap([X.M EXCEPT !.metas = With(@, f, obj)])
             B1 == [X.B EXCEPT !.levels[level].added_files =
                                   FileSetInsert(M1.metas, @, f)]
         IN  ApplyNewFiles_KeepDeleted([M |-> M1, B |-> B1], new_files, i + 1)

\* The "Add new files" loop of Apply: X is [M, B]
RECURSIVE ApplyNewFiles(_, _, _)
ApplyNewFiles(X, new_files, i) ==
    IF i > Len(new_files) THEN X
    ELSE LET level == new_files[i][1]
             d == new_files[i][2]
             f == X.M.alloc.mid
             obj == [number |-> d.number, file_size |-> d.file_size,
                     smallest |-> d.smallest, largest |-> d.largest,
                     refs |-> 1, allowed_seeks |-> AllowedSeeks(d.file_size)]
             M1 == Heap([X.M EXCEPT !.metas = With(@, f, obj)])
             B1 == [X.B EXCEPT !.levels[level].deleted_files = @ \ {d.number},
                               !.levels[level].added_files = FileSetInsert(M1.metas, @, f)]
         IN  ApplyNewFiles([M |-> M1, B |-> B1], new_files, i + 1)

\* Builder::Apply
Apply(X, edit) ==
    LET M1 == ApplyPointers(X.M, edit.compact_pointers, 1)
        B1 == [X.B EXCEPT !.levels = [l \in Levels |->
                  [@[l] EXCEPT !.deleted_files =
                      @ \cup { p[2] : p \in { q \in edit.deleted_files : q[1] = l } }]]]
    IN  ApplyNewFiles([M |-> M1, B |-> B1], edit.new_files, 1)

\* MaybeAddFile taking two references
MaybeAddFile_RefTwice(M, B, v, level, f) ==
    IF M.metas[f].number \in B.levels[level].deleted_files
    THEN M
    ELSE [M EXCEPT !.metas[f].refs = @ + 2,
                   !.versions[v].files[level] = Append(@, f)]

\* MaybeAddFile pushing an added file onto the base Version's list as well
MaybeAddFile_IntoBase(M, B, v, level, f) ==
    IF M.metas[f].number \in B.levels[level].deleted_files
    THEN M
    ELSE [M EXCEPT !.metas[f].refs = @ + 1,
                   !.versions[v].files[level] = Append(@, f),
                   !.versions[B.base].files[level] =
                       IF f \in Range(@) THEN @ ELSE Append(@, f)]

\* Builder::MaybeAddFile
MaybeAddFile(M, B, v, level, f) ==
    IF M.metas[f].number \in B.levels[level].deleted_files
    THEN M
    ELSE LET files == M.versions[v].files[level]
             M1 == IF level > 0 /\ Len(files) > 0
                   THEN Check(M, Compare(M.metas[files[Len(files)]].largest,
                                         M.metas[f].smallest) < 0,
                              "MaybeAddFile: must not overlap")
                   ELSE M
         IN  [M1 EXCEPT !.metas[f].refs = @ + 1,
                        !.versions[v].files[level] = Append(@, f)]

\* std::upper_bound(base_iter, base_end, added, cmp): the first position
\* (from 1) at or after bi whose file is ordered after the added file
UpperBound(F, base, bi, f) ==
    LET after == { i \in bi .. Len(base) : BySmallestKey(F, f, base[i]) }
    IN  IF after = {} THEN Len(base) + 1
        ELSE CHOOSE i \in after : \A j \in after : i <= j

\* SaveTo offering the added files at the places where the edits named them
\* last: every base file first, then the added files
MergeOrder_BaseFirst(F, base, bi, added, ai) ==
    SubSeq(base, bi, Len(base)) \o SubSeq(added, ai, Len(added))

\* The order in which SaveTo offers the files of one level to MaybeAddFile
RECURSIVE MergeOrder(_, _, _, _, _)
MergeOrder(F, base, bi, added, ai) ==
    IF ai > Len(added) THEN SubSeq(base, bi, Len(base))
    ELSE LET bpos == UpperBound(F, base, bi, added[ai])
         IN  SubSeq(base, bi, bpos - 1) \o <<added[ai]>>
               \o MergeOrder(F, base, bpos, added, ai + 1)

RECURSIVE AddFiles(_, _, _, _, _, _)
AddFiles(M, B, v, level, order, i) ==
    IF i > Len(order) THEN M
    ELSE AddFiles(MaybeAddFile(M, B, v, level, order[i]), B, v, level, order, i + 1)

\* The debug-build check at the end of each level of SaveTo
NoOverlapInLevel(F, files) ==
    \A i \in 2 .. Len(files) :
        Compare(F[files[i - 1]].largest, F[files[i]].smallest) < 0

\* The check applied to the memory M once the level is filled
CheckLevel(M, v, level) ==
    IF level > 0
    THEN Check(M, NoOverlapInLevel(M.metas, M.versions[v].files[level]),
               "SaveTo: overlapping ranges in same level")
    ELSE M

RECURSIVE SaveToFrom(_, _, _, _)
SaveToFrom(M, B, v, level) ==
    IF level >= kNumLevels THEN M
    ELSE SaveToFrom(
            CheckLevel(AddFiles(M, B, v, level,
                                MergeOrder(M.metas, M.versions[B.base].files[level], 1,
                                           B.levels[level].added_files, 1),
                                1),
                       v, level),
            B, v, level + 1)

\* Builder::SaveTo
SaveTo(M, B, v) == SaveToFrom(M, B, v, 0)

RECURSIVE UnrefAdded(_, _, _)
UnrefAdded(M, fs, i) ==
    IF i > Len(fs) THEN M
    ELSE LET M1 == [M EXCEPT !.metas[fs[i]].refs = @ - 1]
         IN  UnrefAdded(IF M1.metas[fs[i]].refs <= 0
                        THEN Heap([M1 EXCEPT !.metas = Without(@, fs[i])])
                        ELSE M1,
                        fs, i + 1)

\* Builder::~Builder
BuilderDelete(M, B) ==
    Unref(UnrefAdded(M, ConcatLevels([l \in Levels |-> B.levels[l].added_files], 0), 1),
          B.base)

---------------------------------------------------------------------------
(* Finalize.  A score is [num, base, exp], the quotient                    *)
(* num / (base * 10^exp) that the code holds in a double.                  *)

\* a > b on scores, by cross multiplication without leaving 32 bits
ScoreGreater(a, b) ==
    IF b.num < 0 THEN TRUE
    ELSE LET A == IF a.base = b.base THEN a.num ELSE a.num * b.base
             Bv == IF a.base = b.base THEN b.num ELSE b.num * a.base
             k == IF a.exp < b.exp THEN a.exp ELSE b.exp
             ea == b.exp - k
             eb == a.exp - k
         IN  IF ea > 0
             THEN (Bv \div Pow10(ea)) < A
             ELSE IF eb > 0
             THEN (A \div Pow10(eb)) > Bv
                  \/ ((A \div Pow10(eb)) = Bv /\ (A % Pow10(eb)) > 0)
             ELSE A > Bv

\* score >= 1
ScoreAtLeastOne(a) == a.num >= 0 /\ (a.num \div Pow10(a.exp)) >= a.base

LevelScore(F, V, level) ==
    IF level = 0
    THEN [num |-> Len(V.files[level]), base |-> kL0_CompactionTrigger, exp |-> 0]
    ELSE [num |-> TotalFileSize(F, V.files[level]),
          base |-> MaxBytesBase, exp |-> MaxBytesExp(level)]

\* The loop of Finalize taking a level whose score equals the best so far
RECURSIVE FinalizeLoop_LastWins(_, _, _, _, _)
FinalizeLoop_LastWins(F, V, level, best_level, best_score) ==
    IF level >= kNumLevels - 1
    THEN [level |-> best_level, score |-> best_score]
    ELSE LET score == LevelScore(F, V, level)
         IN  IF ~ScoreGreater(best_score, score) \/ best_score.num < 0
             THEN FinalizeLoop_LastWins(F, V, level + 1, level, score)
             ELSE FinalizeLoop_LastWins(F, V, level + 1, best_level, best_score)

\* The loop of Finalize running over the last level as well
RECURSIVE FinalizeLoop_AllLevels(_, _, _, _, _)
FinalizeLoop_AllLevels(F, V, level, best_level, best_score) ==
    IF level >= kNumLevels
    THEN [level |-> best_level, score |-> best_score]
    ELSE LET score == LevelScore(F, V, level)
         IN  IF ScoreGreater(score, best_score)
             THEN FinalizeLoop_AllLevels(F, V, level + 1, level, score)
             ELSE FinalizeLoop_AllLevels(F, V, level + 1, best_level, best_score)

RECURSIVE FinalizeLoop(_, _, _, _, _)
FinalizeLoop(F, V, level, best_level, best_score) ==
    IF level >= kNumLevels - 1
    THEN [level |-> best_level, score |-> best_score]
    ELSE LET score == LevelScore(F, V, level)
         IN  IF ScoreGreater(score, best_score)
             THEN FinalizeLoop(F, V, level + 1, level, score)
             ELSE FinalizeLoop(F, V, level + 1, best_level, best_score)

\* VersionSet::Finalize
Finalize(M, v) ==
    LET best == FinalizeLoop(M.metas, M.versions[v], 0, -1, NoScore)
    IN  [M EXCEPT !.versions[v].compaction_level = best.level,
                  !.versions[v].compaction_score = best.score]

---------------------------------------------------------------------------
(* Version edits and their manifest records.  A record is the sequence of  *)
(* tagged fields that EncodeTo writes; DecodeFrom reads it back field by   *)
(* field and rejects a tag it does not know.                               *)

EmptyEdit ==
    [has_comparator |-> FALSE, comparator |-> "",
     has_log_number |-> FALSE, log_number |-> 0,
     has_prev_log_number |-> FALSE, prev_log_number |-> 0,
     has_next_file_number |-> FALSE, next_file_number |-> 0,
     has_last_sequence |-> FALSE, last_sequence |-> 0,
     compact_pointers |-> <<>>, deleted_files |-> {}, new_files |-> <<>>]

SetLogNumber(e, n) == [e EXCEPT !.has_log_number = TRUE, !.log_number = n]
SetPrevLogNumber(e, n) == [e EXCEPT !.has_prev_log_number = TRUE, !.prev_log_number = n]
SetNextFile(e, n) == [e EXCEPT !.has_next_file_number = TRUE, !.next_file_number = n]
SetLastSequence(e, n) == [e EXCEPT !.has_last_sequence = TRUE, !.last_sequence = n]
SetComparatorName(e, name) == [e EXCEPT !.has_comparator = TRUE, !.comparator = name]
SetCompactPointer(e, level, key) ==
    [e EXCEPT !.compact_pointers = Append(@, <<level, key>>)]
DeleteFile(e, level, number) ==
    [e EXCEPT !.deleted_files = @ \cup {<<level, number>>}]
AddFile(e, level, number, file_size, smallest, largest) ==
    [e EXCEPT !.new_files = Append(@, <<level, [number |-> number, file_size |-> file_size,
                                                 smallest |-> smallest, largest |-> largest]>>)]

PairLess(p, q) == p[1] < q[1] \/ (p[1] = q[1] /\ p[2] < q[2])

\* The iteration order of the std::set of (level, number) pairs
RECURSIVE SortedPairs(_)
SortedPairs(S) ==
    IF S = {} THEN <<>>
    ELSE LET m == CHOOSE p \in S : \A q \in S \ {p} : PairLess(p, q)
         IN  <<m>> \o SortedPairs(S \ {m})

\* VersionEdit::EncodeTo
EncodeTo(e) ==
    (IF e.has_comparator THEN <<[tag |-> 1, name |-> e.comparator]>> ELSE <<>>)
    \o (IF e.has_log_number THEN <<[tag |-> 2, num |-> e.log_number]>> ELSE <<>>)
    \o (IF e.has_prev_log_number THEN <<[tag |-> 9, num |-> e.prev_log_number]>> ELSE <<>>)
    \o (IF e.has_next_file_number THEN <<[tag |-> 3, num |-> e.next_file_number]>> ELSE <<>>)
    \o (IF e.has_last_sequence THEN <<[tag |-> 4, num |-> e.last_sequence]>> ELSE <<>>)
    \o [i \in 1 .. Len(e.compact_pointers) |->
          [tag |-> 5, level |-> e.compact_pointers[i][1], key |-> e.compact_pointers[i][2]]]
    \o (LET d == SortedPairs(e.deleted_files)
        IN  [i \in 1 .. Len(d) |-> [tag |-> 6, level |-> d[i][1], num |-> d[i][2]]])
    \o [i \in 1 .. Len(e.new_files) |->
          [tag |-> 7, level |-> e.new_files[i][1], file |-> e.new_files[i][2]]]

DecodeField(e, fld) ==
    IF fld.tag = 1 THEN SetComparatorName(e, fld.name)
    ELSE IF fld.tag = 2 THEN SetLogNumber(e, fld.num)
    ELSE IF fld.tag = 9 THEN SetPrevLogNumber(e, fld.num)
    ELSE IF fld.tag = 3 THEN SetNextFile(e, fld.num)
    ELSE IF fld.tag = 4 THEN SetLastSequence(e, fld.num)
    ELSE IF fld.tag = 5 THEN SetCompactPointer(e, fld.level, fld.key)
    ELSE IF fld.tag = 6 THEN DeleteFile(e, fld.level, fld.num)
    ELSE [e EXCEPT !.new_files = Append(@, <<fld.level, fld.file>>)]

KnownTags == {1, 2, 3, 4, 5, 6, 7, 9}

RECURSIVE DecodeLoop(_, _, _)
DecodeLoop(e, rec, i) ==
    IF i > Len(rec) THEN [s |-> "OK", edit |-> e]
    ELSE IF rec[i].tag \notin KnownTags THEN [s |-> "Corruption", edit |-> e]
    ELSE DecodeLoop(DecodeField(e, rec[i]), rec, i + 1)

\* VersionEdit::DecodeFrom
DecodeFrom(rec) == DecodeLoop(EmptyEdit, rec, 1)

---------------------------------------------------------------------------
(* The database directory.  disk.manifests maps a manifest file number to  *)
(* [recs, synced]: the records appended and how many of them a successful  *)
(* Sync has covered.  disk.CURRENT is [exists, name, newline]: name is the *)
(* manifest number the text names (0 for no name).                         *)

BytewiseName == "leveldb.BytewiseComparator"

AppendRecord(D, n, rec) == [D EXCEPT !.manifests[n].recs = Append(@, rec)]

SyncFile(D, n) == [D EXCEPT !.manifests[n].synced = Len(D.manifests[n].recs)]

\* env_->NewWritableFile: creates the file, or truncates an existing one
NewWritableFile(D, n) ==
    [D EXCEPT !.manifests = With(@, n, [recs |-> <<>>, synced |-> 0])]

\* env_->DeleteFile
RemoveFile(D, n) ==
    IF n \in DOMAIN D.manifests THEN [D EXCEPT !.manifests = Without(@, n)] ELSE D

\* SetCurrentFile: write-temp-then-rename of "MANIFEST-<n>\n"
SetCurrentFile(D, n) ==
    [D EXCEPT !.CURRENT = [exists |-> TRUE, name |-> n, newline |-> TRUE]]

RECURSIVE SnapshotPointers(_, _, _)
SnapshotPointers(M, e, level) ==
    IF level >= kNumLevels THEN e
    ELSE SnapshotPointers(M,
            IF ~IsNull(M.vset.compact_pointer_[level])
            THEN SetCompactPointer(e, level, Val(M.vset.compact_pointer_[level]))
            ELSE e,
            level + 1)

RECURSIVE SnapshotFiles(_, _, _, _)
SnapshotFiles(M, e, level, i) ==
    IF level >= kNumLevels THEN e
    ELSE LET files == M.versions[M.vset.current_].files[level]
         IN  IF i > Len(files) THEN SnapshotFiles(M, e, level + 1, 1)
             ELSE LET f == M.metas[files[i]]
                  IN  SnapshotFiles(M, AddFile(e, level, f.number, f.file_size,
                                               f.smallest, f.largest),
                                    level, i + 1)

\* The record VersionSet::WriteSnapshot hands to AddRecord
WriteSnapshot(M) ==
    EncodeTo(SnapshotFiles(M,
                SnapshotPointers(M, SetComparatorName(EmptyEdit, M.vset.comparator), 0),
                0, 1))

\* VersionSet::ManifestContains; open_ok is the outcome of NewSequentialFile
ManifestContains(M, D, record, open_ok) ==
    /\ open_ok
    /\ M.vset.manifest_file_number_ \in DOMAIN D.manifests
    /\ \E i \in 1 .. Len(D.manifests[M.vset.manifest_file_number_].recs) :
          D.manifests[M.vset.manifest_file_number_].recs[i] = record

\* VersionSet::MarkFileNumberUsed
MarkFileNumberUsed(M, number) ==
    IF M.vset.next_file_number_ <= number
    THEN [M EXCEPT !.vset.next_file_number_ = number + 1]
    ELSE M

---------------------------------------------------------------------------
(* VersionSet::Recover *)

RecoverVars0 ==
    [s |-> "OK",
     have_log_number |-> FALSE, have_prev_log_number |-> FALSE,
     have_next_file |-> FALSE, have_last_sequence |-> FALSE,
     next_file |-> 0, last_sequence |-> 0, log_number |-> 0, prev_log_number |-> 0]

\* The read loop: X is the Builder with the memory, r the local variables
RECURSIVE RecoverLoop(_, _, _, _)
RECURSIVE RecoverRecord(_, _, _, _, _, _)
RecoverLoop(X, r, recs, i) ==
    IF i > Len(recs) \/ r.s # "OK" THEN [X |-> X, r |-> r]
    ELSE RecoverRecord(X, r, recs, i, DecodeFrom(recs[i]).s, DecodeFrom(recs[i]).edit)

\* The loop body for record i: ds and edit are what DecodeFrom made of it
RecoverRecord(X, r, recs, i, ds, edit) ==
    LET s1 == IF ds = "OK" /\ edit.has_comparator
                 /\ edit.comparator # X.M.vset.comparator
              THEN "InvalidArgument" ELSE ds
    IN  RecoverLoop(
            IF s1 = "OK" THEN Apply(X, edit) ELSE X,
            [r EXCEPT
                !.s = s1,
                !.log_number = IF edit.has_log_number THEN edit.log_number ELSE @,
                !.have_log_number = @ \/ edit.has_log_number,
                !.prev_log_number = IF edit.has_prev_log_number
                                    THEN edit.prev_log_number ELSE @,
                !.have_prev_log_number = @ \/ edit.has_prev_log_number,
                !.next_file = IF edit.has_next_file_number
                              THEN edit.next_file_number ELSE @,
                !.have_next_file = @ \/ edit.has_next_file_number,
                !.last_sequence = IF edit.has_last_sequence
                                  THEN edit.last_sequence ELSE @,
                !.have_last_sequence = @ \/ edit.has_last_sequence],
            recs, i + 1)

\* The checks without the one for the log number
RecoverValidate_NoLogCheck(r) ==
    IF r.s # "OK" THEN r.s
    ELSE IF ~r.have_next_file THEN "Corruption"
    ELSE IF ~r.have_last_sequence THEN "Corruption"
    ELSE "OK"

\* Lines 1046-1061: the checks on what the stream supplied
RecoverValidate(r) ==
    IF r.s # "OK" THEN r.s
    ELSE IF ~r.have_next_file THEN "Corruption"
    ELSE IF ~r.have_log_number THEN "Corruption"
    ELSE IF ~r.have_last_sequence THEN "Corruption"
    ELSE "OK"

\* Lines 1063-1075: install the recovered Version
RecoverInstall(M, B, r) ==
    LET v == M.alloc.vid
        M1 == AppendVersion(Finalize(SaveTo(NewVersion(M), B, v), v), v)
    IN  [M1 EXCEPT !.vset.manifest_file_number_ = r.next_file,
                   !.vset.next_file_number_ = r.next_file + 1,
                   !.vset.last_sequence_ = r.last_sequence,
                   !.vset.log_number_ = r.log_number,
                   !.vset.prev_log_number_ = r.prev_log_number]

\* Lines 1046-1077: L is [X, r], the Builder with the memory and the local
\* variables the read loop leaves; s2 the Status after the checks
RecoverEnd(M1, B, r2, s2) ==
    [M |-> BuilderDelete(IF s2 = "OK" THEN RecoverInstall(M1, B, r2) ELSE M1, B),
     s |-> s2]

RecoverFinish(L) ==
    LET prev == IF L.r.have_prev_log_number THEN L.r.prev_log_number ELSE 0
    IN  RecoverEnd(IF L.r.s = "OK"
                   THEN MarkFileNumberUsed(MarkFileNumberUsed(L.X.M, prev), L.r.log_number)
                   ELSE L.X.M,
                   L.X.B, [L.r EXCEPT !.prev_log_number = prev], RecoverValidate(L.r))

\* The whole call: the memory afterwards and the Status returned
Recover(M, D) ==
    IF ~D.CURRENT.exists THEN [M |-> M, s |-> "IOError"]
    ELSE IF D.CURRENT.name = 0 /\ ~D.CURRENT.newline THEN [M |-> M, s |-> "Corruption"]
    ELSE IF ~D.CURRENT.newline THEN [M |-> M, s |-> "Corruption"]
    ELSE IF D.CURRENT.name \notin DOMAIN D.manifests THEN [M |-> M, s |-> "IOError"]
    ELSE RecoverFinish(RecoverLoop(BuilderNew(M, M.vset.current_), RecoverVars0,
                                   D.manifests[D.CURRENT.name].recs, 1))

---------------------------------------------------------------------------
(* The process memory as one record, and the state after construction *)

Mem == [vset |-> vset, versions |-> versions, metas |-> metas,
        alloc |-> alloc, asserts |-> asserts]

SetMem(M) ==
    /\ vset' = M.vset
    /\ versions' = M.versions
    /\ metas' = M.metas
    /\ alloc' = M.alloc
    /\ asserts' = M.asserts

SetMemInit(M) ==
    /\ vset = M.vset
    /\ versions = M.versions
    /\ metas = M.metas
    /\ alloc = M.alloc
    /\ asserts = M.asserts

\* VersionSet::VersionSet under a comparator named cmp
Construct(cmp) ==
    AppendVersion(
        NewVersion([vset |-> [current_ |-> 0, dummy_versions_ |-> <<>>,
                              next_file_number_ |-> 2, manifest_file_number_ |-> 0,
                              last_sequence_ |-> 0, log_number_ |-> 0,
                              prev_log_number_ |-> 0,
                              compact_pointer_ |-> [l \in Levels |-> Null],
                              descriptor_log_ |-> 0, comparator |-> cmp],
                    versions |-> <<>>, metas |-> <<>>,
                    alloc |-> [vid |-> 1, mid |-> 1], asserts |-> {}]),
        1)

\* The directory of a new database: MANIFEST-1 holds one record and
\* CURRENT names it
NewDBDisk ==
    [manifests |-> With(<<>>, 1,
        [recs |-> <<EncodeTo(SetLastSequence(SetNextFile(SetLogNumber(
                      SetComparatorName(EmptyEdit, BytewiseName), 0), 2), 0))>>,
         synced |-> 1]),
     CURRENT |-> [exists |-> TRUE, name |-> 1, newline |-> TRUE]]

IdleCall == [pc |-> "idle"]

NoRet == [op |-> "none"]

\* Per-level sets of the file numbers of Version v
NumbersOf(M, v) ==
    [l \in Levels |-> { M.metas[f].number : f \in Range(M.versions[v].files[l]) }]

---------------------------------------------------------------------------
(* VersionSet::LogAndApply, one action per stretch between two I/O calls.  *)
(* mu is held by the caller in Build and Snapshot, released from Write to  *)
(* SetCurrent, and held again in Install.                                  *)

\* Lines 858-870
FillEdit(M, edit) ==
    LET e1 == IF edit.has_log_number THEN edit ELSE SetLogNumber(edit, M.vset.log_number_)
        e2 == IF e1.has_prev_log_number THEN e1
              ELSE SetPrevLogNumber(e1, M.vset.prev_log_number_)
    IN  SetLastSequence(SetNextFile(e2, M.vset.next_file_number_), M.vset.last_sequence_)

\* Lines 873-880: the memory with the new Version v built and finalized
BuildFrom(X, v) == Finalize(BuilderDelete(SaveTo(X.M, X.B, v), X.B), v)

BuildVersion(M, edit) ==
    BuildFrom(Apply(BuilderNew(NewVersion(M), M.vset.current_), edit), M.alloc.vid)

\* nwf_ok is the outcome of NewWritableFile
\* Lines 858-863: the two assertions on the edit's log number
CheckLogNumber(M, edit0) ==
    Check(Check(M, edit0.has_log_number => edit0.log_number >= M.vset.log_number_,
                "edit->log_number_ >= log_number_"),
          edit0.has_log_number => edit0.log_number < M.vset.next_file_number_,
          "edit->log_number_ < next_file_number_")

\* Lines 882-900: M is the memory on entry, edit the filled edit, M2 the
\* memory with the Version built
OpenManifest(M, D, edit, M2, nwf_ok) ==
    LET fresh == M.vset.descriptor_log_ = 0
        n == M.vset.manifest_file_number_
        c0 == [pc |-> "write", edit |-> edit, v |-> M.alloc.vid, new_manifest_file |-> 0,
               s |-> "OK", record |-> <<>>, synced |-> FALSE,
               pre_current |-> M.vset.current_,
               pre_numbers |-> NumbersOf(M, M.vset.current_),
               pre_log_number |-> M.vset.log_number_,
               pre_prev_log_number |-> M.vset.prev_log_number_]
    IN  IF ~fresh THEN [M |-> M2, D |-> D, call |-> c0]
        ELSE IF nwf_ok
        THEN [M |-> [M2 EXCEPT !.vset.descriptor_log_ = n],
              D |-> NewWritableFile(D, n),
              call |-> [c0 EXCEPT !.pc = "snapshot", !.new_manifest_file = n]]
        ELSE [M |-> M2, D |-> D,
              call |-> [c0 EXCEPT !.pc = "install", !.new_manifest_file = n,
                                  !.s = "IOError"]]

\* Lines 857-900 for the edit the caller hands in
BuildAndOpen(M, D, edit0, edit, nwf_ok) ==
    OpenManifest(M, D, edit, BuildVersion(CheckLogNumber(M, edit0), edit), nwf_ok)

LogAndApplyBuild(M, D, edit0, nwf_ok) == BuildAndOpen(M, D, edit0, FillEdit(M, edit0), nwf_ok)

\* Line 898; ok is the outcome of AddRecord
LogAndApplySnapshot(M, D, c, ok) ==
    IF ok
    THEN [M |-> M, D |-> AppendRecord(D, M.vset.descriptor_log_, WriteSnapshot(M)),
          call |-> [c EXCEPT !.pc = "write"]]
    ELSE [M |-> M, D |-> D, call |-> [c EXCEPT !.pc = "install", !.s = "IOError"]]

\* Lines 907-911; ok is the outcome of AddRecord
WriteRecord(M, D, c, record, ok) ==
    IF ok
    THEN [M |-> M, D |-> AppendRecord(D, M.vset.descriptor_log_, record),
          call |-> [c EXCEPT !.pc = "sync", !.record = record]]
    ELSE [M |-> M, D |-> D,
          call |-> [c EXCEPT !.pc = "sync", !.record = record, !.s = "IOError"]]

LogAndApplyWrite(M, D, c, ok) == WriteRecord(M, D, c, EncodeTo(c.edit), ok)

\* Where the call goes once the record is written and checked
AfterSync(c, s) ==
    [c EXCEPT !.s = s,
              !.pc = IF s = "OK" /\ c.new_manifest_file # 0 THEN "setcurrent" ELSE "install"]

\* Lines 912-926; sync_ok is the outcome of Sync, open_ok that of the
\* NewSequentialFile in ManifestContains
LogAndApplySync(M, D, c, sync_ok, open_ok) ==
    LET synced == c.s = "OK" /\ sync_ok
        D1 == IF synced THEN SyncFile(D, M.vset.descriptor_log_) ELSE D
        s1 == IF synced THEN "OK" ELSE "IOError"
        s2 == IF s1 # "OK" /\ ManifestContains(M, D1, c.record, open_ok) THEN "OK" ELSE s1
    IN  [M |-> M, D |-> D1, call |-> AfterSync([c EXCEPT !.synced = synced], s2)]

\* Lines 930-934; ok is the outcome of SetCurrentFile
LogAndApplySetCurrent(M, D, c, ok) ==
    IF ok
    THEN [M |-> M, D |-> SetCurrentFile(D, M.vset.manifest_file_number_),
          call |-> [c EXCEPT !.pc = "install"]]
    ELSE [M |-> M, D |-> D, call |-> [c EXCEPT !.pc = "install", !.s = "IOError"]]

\* The install without the two log number assignments
InstallVersion_KeepLog(M, c) == AppendVersion(M, c.v)

\* Lines 940-944
InstallVersion(M, c) ==
    [AppendVersion(M, c.v) EXCEPT !.vset.log_number_ = c.edit.log_number,
                                  !.vset.prev_log_number_ = c.edit.prev_log_number]

\* The discard that leaves the manifest writer and the new file in place
DiscardVersion_KeepWriter(M, D, c) == [M |-> DestroyVersion(M, c.v), D |-> D]

\* Lines 946-953: delete v, and with it the manifest this call created
DiscardVersion(M, D, c) ==
    LET M1 == DestroyVersion(M, c.v)
    IN  IF c.new_manifest_file # 0
        THEN [M |-> [M1 EXCEPT !.vset.descriptor_log_ = 0],
              D |-> RemoveFile(D, c.new_manifest_file)]
        ELSE [M |-> M1, D |-> D]

\* Lines 939-956
LogAndApplyInstall(M, D, c) ==
    IF c.s = "OK"
    THEN [M |-> InstallVersion(M, c), D |-> D]
    ELSE DiscardVersion(M, D, c)

---------------------------------------------------------------------------
(* The actions of the version set's life: open, write, read, crash *)

Init ==
    /\ SetMemInit(Construct(BytewiseName))
    /\ disk = NewDBDisk
    /\ call = IdleCall
    /\ readers = <<>>
    /\ phase = "constructed"
    /\ ret = NoRet

\* A failed assertion aborts the process where it stands
Abort(M) ==
    /\ asserts' = M.asserts
    /\ phase' = "aborted"
    /\ UNCHANGED <<vset, versions, metas, alloc, disk, call, readers, ret>>

\* The caller, holding mu, enters LogAndApply with an edit
\* R is [M, D, call]: the memory, directory and call after a step
StepTo(R) ==
    /\ SetMem(R.M)
    /\ disk' = R.D
    /\ call' = R.call
    /\ UNCHANGED <<readers, phase, ret>>

StepOrAbort(R) == IF R.M.asserts # {} THEN Abort(R.M) ELSE StepTo(R)

StartLogAndApply(M, edit) ==
    \E nwf_ok \in BOOLEAN : StepOrAbort(LogAndApplyBuild(M, disk, edit, nwf_ok))

CanCall ==
    /\ phase = "open"
    /\ call.pc = "idle"
    /\ vset.descriptor_log_ # 0 => Len(disk.manifests[vset.descriptor_log_].recs) < MaxRecords

\* The size of a flushed table
FlushSize == kTargetFileSize \div 2

\* A memtable flush: the table gets a new file number, the level that
\* PickLevelForMemTableOutput returns, and is installed by LogAndApply with
\* the log number moved past the flushed log (here the table's own number)
Flush ==
    /\ CanCall
    /\ vset.next_file_number_ <= MaxFileNumber
    /\ \E lo \in 1 .. MaxUserKey, hi \in 1 .. MaxUserKey :
          /\ lo <= hi
          /\ LET n == vset.next_file_number_
                 M == [Mem EXCEPT !.vset.next_file_number_ = n + 1]
                 level == PickLevelForMemTableOutput(metas, versions[vset.current_], lo, hi)
                 e == AddFile(EmptyEdit, level, n, FlushSize, IKey(lo, 2), IKey(hi, 1))
             IN  StartLogAndApply(M, SetLogNumber(SetPrevLogNumber(e, 0), n))

\* An edit that only deletes one file of current
DropFile ==
    /\ CanCall
    /\ \E l \in Levels :
          \E i \in 1 .. Len(versions[vset.current_].files[l]) :
              StartLogAndApply(Mem, DeleteFile(EmptyEdit, l,
                  metas[versions[vset.current_].files[l][i]].number))

Snapshot ==
    /\ phase = "open" /\ call.pc = "snapshot"
    /\ \E ok \in BOOLEAN : StepTo(LogAndApplySnapshot(Mem, disk, call, ok))

Write ==
    /\ phase = "open" /\ call.pc = "write"
    /\ \E ok \in BOOLEAN : StepTo(LogAndApplyWrite(Mem, disk, call, ok))

Sync ==
    /\ phase = "open" /\ call.pc = "sync"
    /\ \E sync_ok \in BOOLEAN, open_ok \in BOOLEAN :
          StepTo(LogAndApplySync(Mem, disk, call, sync_ok, open_ok))

SetCurrent ==
    /\ phase = "open" /\ call.pc = "setcurrent"
    /\ \E ok \in BOOLEAN : StepTo(LogAndApplySetCurrent(Mem, disk, call, ok))

\* The call returns: R is [M, D], the memory and directory it leaves
Return(R) ==
    /\ SetMem(R.M)
    /\ disk' = R.D
    /\ call' = IdleCall
    /\ ret' = [op |-> "LogAndApply", s |-> call.s, edit |-> call.edit,
               v |-> call.v, pre_current |-> call.pre_current,
               pre_numbers |-> call.pre_numbers,
               new_manifest_file |-> call.new_manifest_file,
               synced |-> call.synced]
    /\ UNCHANGED <<readers, phase>>

Install ==
    /\ phase = "open" /\ call.pc = "install"
    /\ Return(LogAndApplyInstall(Mem, disk, call))

\* mu is free: the caller of LogAndApply holds it in Build and Snapshot
MuFree == call.pc # "snapshot"

\* The pinned Versions are kept in ascending order of their ids: which
\* reader holds which pin makes no difference to the version set
InsertSorted(s, x) ==
    LET k == Cardinality({ i \in 1 .. Len(s) : s[i] <= x })
    IN  SubSeq(s, 1, k) \o <<x>> \o SubSeq(s, k + 1, Len(s))

\* A reader pins current under mu
ReaderRef ==
    /\ phase = "open" /\ MuFree
    /\ Len(readers) < MaxReaders
    /\ SetMem(Ref(Mem, vset.current_))
    /\ readers' = InsertSorted(readers, vset.current_)
    /\ UNCHANGED <<disk, call, phase, ret>>

\* A reader releases its Version under mu
ReaderUnref ==
    /\ phase = "open" /\ MuFree
    /\ \E i \in 1 .. Len(readers) :
          /\ SetMem(Unref(Mem, readers[i]))
          /\ readers' = SubSeq(readers, 1, i - 1) \o SubSeq(readers, i + 1, Len(readers))
    /\ UNCHANGED <<disk, call, phase, ret>>

\* What a crash leaves of the directory: the manifest CURRENT names, with
\* its synced records and any number of the records appended after them.
\* The other manifests are left out: nothing reads them, and the next
\* NewWritableFile on their name truncates them.
KeepRecords(D, keep) ==
    LET n == D.CURRENT.name
    IN  [D EXCEPT !.manifests =
            IF D.CURRENT.exists /\ n \in DOMAIN D.manifests
            THEN With(<<>>, n, [recs |-> SubSeq(D.manifests[n].recs, 1, keep),
                                synced |-> keep])
            ELSE <<>>]

\* The numbers of records a crash can leave in the manifest CURRENT names
CrashKeeps(D) ==
    LET n == D.CURRENT.name
    IN  IF D.CURRENT.exists /\ n \in DOMAIN D.manifests
        THEN D.manifests[n].synced .. Len(D.manifests[n].recs)
        ELSE {0}

CrashDisks(D) == { KeepRecords(D, keep) : keep \in CrashKeeps(D) }

\* The process dies and a new one constructs its VersionSet
Crash ==
    /\ phase # "constructed"
    /\ \E keep \in CrashKeeps(disk) :
          /\ disk' = KeepRecords(disk, keep)
          /\ ret' = [op |-> "Crash",
                     quiet |-> phase = "open" /\ call.pc = "idle",
                     kept_all |-> keep = Max(CrashKeeps(disk)),
                     numbers |-> IF phase = "open" THEN NumbersOf(Mem, vset.current_)
                                 ELSE [l \in Levels |-> {}]]
    /\ SetMem(Construct(BytewiseName))
    /\ call' = IdleCall
    /\ readers' = <<>>
    /\ phase' = "constructed"

\* Recover returns: R is [M, s], the memory it leaves and its Status
Recovered(R) ==
    /\ SetMem(R.M)
    /\ phase' = IF R.s = "OK" THEN "open" ELSE "failed"
    /\ ret' = [op |-> "Recover", s |-> R.s, pre_current |-> vset.current_,
               pre_list |-> vset.dummy_versions_, restart |-> ret]
    /\ UNCHANGED <<disk, call, readers>>

DoRecover ==
    /\ phase = "constructed"
    /\ Recovered(Recover(Mem, disk))

Next ==
    \/ DoRecover
    \/ Flush
    \/ DropFile
    \/ Snapshot
    \/ Write
    \/ Sync
    \/ SetCurrent
    \/ Install
    \/ ReaderRef
    \/ ReaderUnref
    \/ Crash

Spec == Init /\ [][Next]_vars

---------------------------------------------------------------------------
(* Properties of the version set's life (Spec) *)

\* The file objects in the lists of Version v
FilesOf(v) == UNION { Range(versions[v].files[l]) : l \in Levels }

\* How many of the Versions in V hold file object f
Holders(V, f) == Cardinality({ v \in V : f \in FilesOf(v) })

\* What an edit makes of per-level sets of file numbers
NumbersAfter(numbers, edit) ==
    [l \in Levels |->
        (numbers[l] \ { d[2] : d \in { q \in edit.deleted_files : q[1] = l } })
        \cup { edit.new_files[i][2].number :
               i \in { j \in 1 .. Len(edit.new_files) : edit.new_files[j][1] = l } }]

\* C2 (as amended): between the operations, every file metadata object's
\* refs equals the number of Version objects that hold it, counting the
\* Version a LogAndApply in flight has built and not yet installed; an
\* object exists exactly while that number is positive, no list holds a
\* freed object, and the assertion f->refs > 0 of ~Version never fails.
C2_RefsCountEveryVersion ==
    /\ \A f \in DOMAIN metas :
          metas[f].refs = Holders(DOMAIN versions, f) /\ metas[f].refs > 0
    /\ \A v \in DOMAIN versions : FilesOf(v) \subseteq DOMAIN metas
    /\ "f->refs > 0" \notin asserts

\* C2 as stated: refs equals the number of Versions of the live list that
\* hold the object.
C2_RefsCountLiveList ==
    \A f \in DOMAIN metas : metas[f].refs = Holders(Range(vset.dummy_versions_), f)

\* A file held by current and by the Version of a call that is writing
C2_Witness ==
    /\ call.pc = "sync"
    /\ readers = <<>>
    /\ \E f \in DOMAIN metas :
          /\ f \in FilesOf(vset.current_) /\ f \in FilesOf(call.v)
          /\ metas[f].refs = 2

\* C3: once LogAndApply(e) has returned OK, current is the Version the call
\* built, its file numbers at every level are those of the previous current
\* minus the deletions of e plus the additions of e, and log_number_ and
\* prev_log_number_ are those of e; this stays so until the next install.
C3_SuccessInstallsEdit ==
    (ret.op = "LogAndApply" /\ ret.s = "OK") =>
        /\ vset.current_ = ret.v
        /\ NumbersOf(Mem, vset.current_) = NumbersAfter(ret.pre_numbers, ret.edit)
        /\ vset.log_number_ = ret.edit.log_number
        /\ vset.prev_log_number_ = ret.edit.prev_log_number
        /\ \A i \in 1 .. Len(readers) : readers[i] \in Range(vset.dummy_versions_)

\* A deletion has succeeded and left another file in current, and a later
\* call is already writing
C3_Witness ==
    /\ ret.op = "LogAndApply" /\ ret.s = "OK"
    /\ ret.edit.deleted_files # {}
    /\ \E l \in Levels : NumbersOf(Mem, vset.current_)[l] # {}
    /\ call.pc = "sync"

\* C4 as stated: after LogAndApply calls, successful or failed, a restart
\* that loses nothing of the manifest recovers the per-level file numbers
\* of the Version that was current in memory.
C4_RecoverRestoresCurrent ==
    (ret.op = "Recover" /\ ret.restart.op = "Crash"
        /\ ret.restart.quiet /\ ret.restart.kept_all) =>
        /\ ret.s = "OK"
        /\ NumbersOf(Mem, vset.current_) = ret.restart.numbers

C6_LiveFilesOfReferencedVersions ==
    AddLiveFiles(Mem) =
        UNION { { metas[f].number : f \in FilesOf(v) } :
                v \in { w \in DOMAIN versions : versions[w].refs > 0 } }

\* A pinned Version keeps a file live that current no longer has
C6_Witness ==
    \E i \in 1 .. Len(readers) :
        \E f \in FilesOf(readers[i]) :
            /\ f \notin FilesOf(vset.current_)
            /\ metas[f].number \in AddLiveFiles(Mem)
            /\ ret.op = "LogAndApply" /\ ret.s = "OK"

\* C7: while a call is in flight its Version is not in the live list and
\* current_, log_number_ and prev_log_number_ are those from before the
\* call; the return of a non-OK status destroys the Version, leaves
\* current_, the list and the two log numbers as they are and, when the call
\* had made a new manifest, deletes the file and resets descriptor_log_.
C7_FailureLeavesPriorState ==
    /\ [](call.pc # "idle" =>
             /\ vset.current_ = call.pre_current
             /\ call.v \notin Range(vset.dummy_versions_)
             /\ vset.log_number_ = call.pre_log_number
             /\ vset.prev_log_number_ = call.pre_prev_log_number)
    /\ [][(call.pc = "install" /\ call.s # "OK" /\ call'.pc = "idle" /\ phase' = "open") =>
            /\ call.v \notin DOMAIN versions'
            /\ vset'.current_ = vset.current_
            /\ vset'.dummy_versions_ = vset.dummy_versions_
            /\ vset'.log_number_ = vset.log_number_
            /\ vset'.prev_log_number_ = vset.prev_log_number_
            /\ call.new_manifest_file # 0 =>
                  /\ call.new_manifest_file \notin DOMAIN disk'.manifests
                  /\ vset'.descriptor_log_ = 0]_vars

\* A call that made a new manifest has written and synced its record and
\* has then failed in SetCurrentFile
C7_Witness ==
    /\ ret.op = "LogAndApply" /\ ret.s # "OK"
    /\ ret.synced
    /\ ret.new_manifest_file # 0
    /\ ret.edit.new_files # <<>>
    /\ vset.descriptor_log_ = 0
    /\ call.pc = "idle"
    /\ phase = "open"

\* What Recover makes of a directory in a new process
Outcome(R) ==
    [s |-> R.s,
     numbers |-> IF R.s = "OK" THEN NumbersOf(R.M, R.M.vset.current_)
                 ELSE [l \in Levels |-> {}]]

Replay(D) == Outcome(Recover(Construct(BytewiseName), D))

\* C8 as stated: a Version is installed only when its record was synced,
\* and whatever a crash during a call leaves of the manifest CURRENT names
\* replays to the Version current before the call or to it plus the edit.
C8_InstallAfterSyncCrashReplays ==
    /\ (ret.op = "LogAndApply" /\ ret.s = "OK") => ret.synced
    /\ (phase = "open" /\ call.pc # "idle") =>
          \A D \in CrashDisks(disk) :
              Replay(D) \in
                  { [s |-> "OK", numbers |-> call.pre_numbers],
                    [s |-> "OK", numbers |-> NumbersAfter(call.pre_numbers, call.edit)] }

---------------------------------------------------------------------------
(* Recover on the directories a process can find (SpecRecover) *)

OtherName == "other.Comparator"

\* The manifest records the streams are made of
Records ==
    { EncodeTo(SetLastSequence(SetNextFile(SetLogNumber(
          SetComparatorName(EmptyEdit, BytewiseName), 0), 2), 0)),
      EncodeTo(SetComparatorName(EmptyEdit, OtherName)),
      <<[tag |-> 3, num |-> 5], [tag |-> 8]>>,
      EncodeTo(AddFile(EmptyEdit, 1, 3, FlushSize, IKey(1, 2), IKey(1, 1))),
      EncodeTo(DeleteFile(EmptyEdit, 1, 3)),
      EncodeTo(SetNextFile(EmptyEdit, 4)),
      EncodeTo(SetLogNumber(EmptyEdit, 3)),
      EncodeTo(SetLastSequence(EmptyEdit, 1)) }

Streams == UNION { [1 .. n -> Records] : n \in 0 .. MaxRecords }

\* CURRENT: missing, empty, a name without the newline, a newline alone,
\* the name of MANIFEST-1, the name of a manifest that does not exist
CurrentFiles ==
    { [exists |-> FALSE, name |-> 0, newline |-> FALSE],
      [exists |-> TRUE, name |-> 0, newline |-> FALSE],
      [exists |-> TRUE, name |-> 1, newline |-> FALSE],
      [exists |-> TRUE, name |-> 0, newline |-> TRUE],
      [exists |-> TRUE, name |-> 1, newline |-> TRUE],
      [exists |-> TRUE, name |-> 2, newline |-> TRUE] }

InitRecover ==
    /\ \E cmp \in {BytewiseName, OtherName} : SetMemInit(Construct(cmp))
    /\ \E cur \in CurrentFiles, recs \in Streams :
          disk = [manifests |-> With(<<>>, 1, [recs |-> recs, synced |-> Len(recs)]),
                  CURRENT |-> cur]
    /\ call = IdleCall
    /\ readers = <<>>
    /\ phase = "constructed"
    /\ ret = NoRet

NextRecover == DoRecover

SpecRecover == InitRecover /\ [][NextRecover]_vars

HasTag(rec, tag) == \E j \in 1 .. Len(rec) : rec[j].tag = tag

Undecodable(rec) == \E j \in 1 .. Len(rec) : rec[j].tag \notin KnownTags

OtherComparator(rec, cmp) ==
    /\ ~Undecodable(rec)
    /\ \E j \in 1 .. Len(rec) : rec[j].tag = 1 /\ rec[j].name # cmp

\* The status the failing cases give for directory D under comparator cmp
ExpectedStatus(D, cmp) ==
    IF ~D.CURRENT.exists THEN "IOError"
    ELSE IF ~D.CURRENT.newline THEN "Corruption"
    ELSE IF D.CURRENT.name \notin DOMAIN D.manifests THEN "IOError"
    ELSE LET recs == D.manifests[D.CURRENT.name].recs
             bad == { i \in 1 .. Len(recs) :
                        Undecodable(recs[i]) \/ OtherComparator(recs[i], cmp) }
             supplied(tag) == \E i \in 1 .. Len(recs) : HasTag(recs[i], tag)
         IN  IF bad # {}
             THEN LET k == CHOOSE i \in bad : \A j \in bad : i <= j
                  IN  IF Undecodable(recs[k]) THEN "Corruption" ELSE "InvalidArgument"
             ELSE IF ~supplied(3) \/ ~supplied(2) \/ ~supplied(4) THEN "Corruption"
             ELSE "OK"

\* C9: Recover fails exactly in the cases listed, with the status listed
\* (the environment's error for a CURRENT or a manifest that cannot be
\* read, Corruption for a CURRENT that is empty or lacks the newline, for a
\* record that does not decode and for a stream without next file number,
\* log number or last sequence, InvalidArgument for another comparator's
\* name), and when it fails current_ and the live list are those from
\* before the call and no Version has been added.
C9_RecoverFailureInstallsNothing ==
    ret.op = "Recover" =>
        /\ ret.s = ExpectedStatus(disk, vset.comparator)
        /\ ret.s # "OK" =>
              /\ vset.current_ = ret.pre_current
              /\ vset.dummy_versions_ = ret.pre_list
              /\ DOMAIN versions = Range(ret.pre_list)

\* Recover has applied a record that adds a file and then met the name of
\* another comparator
C9_Witness ==
    /\ ret.op = "Recover" /\ ret.s = "InvalidArgument"
    /\ LET recs == disk.manifests[disk.CURRENT.name].recs
       IN  /\ Len(recs) >= 2
           /\ HasTag(recs[1], 7)
           /\ OtherComparator(recs[2], vset.comparator)

---------------------------------------------------------------------------
(* Version::Get.  A lookup key k is the internal key [u, t].  What          *)
(* table_cache_->Get does with a file is an outcome: a Status and, when the *)
(* table has an entry at or after k, the entry handed to SaveValue:         *)
(* [parsed, user_key, type, value].                                         *)

MaxGetFiles == 3

kTypeDeletion == 0
kTypeValue == 1

\* SaveValue: the saver after the callback on entry e
SaveValue(saver, e) ==
    IF ~e.parsed THEN [saver EXCEPT !.state = "kCorrupt"]
    ELSE IF UserCompare(e.user_key, saver.user_key) = 0
    THEN [saver EXCEPT !.state = IF e.type = kTypeValue THEN "kFound" ELSE "kDeleted",
                       !.value = IF e.type = kTypeValue THEN e.value ELSE @]
    ELSE saver

\* NewestFirst with the operands exchanged
NewestFirst_Oldest(a, b) == a.number < b.number

NewestFirst(a, b) == a.number > b.number

\* std::sort(tmp.begin(), tmp.end(), NewestFirst)
SortNewestFirst(F, tmp) ==
    [i \in 1 .. Len(tmp) |->
        CHOOSE f \in Range(tmp) :
            Cardinality({ g \in Range(tmp) : NewestFirst(F[g], F[f]) }) = i - 1]

\* The level-0 files whose user-key range holds user_key, in list order
RECURSIVE Level0Candidates(_, _, _, _)
Level0Candidates(F, files, user_key, i) ==
    IF i > Len(files) THEN <<>>
    ELSE (IF UserCompare(user_key, F[files[i]].smallest.u) >= 0
             /\ UserCompare(user_key, F[files[i]].largest.u) <= 0
          THEN <<files[i]>> ELSE <<>>)
         \o Level0Candidates(F, files, user_key, i + 1)

\* The file of a level >= 1 at FindFile's index, when there is one
FoundFile(F, files, k, index) ==
    IF index >= Len(files) THEN <<>>
    ELSE IF UserCompare(k.u, F[files[index + 1]].smallest.u) < 0 THEN <<>>
    ELSE <<files[index + 1]>>

\* The files Get searches in one level, in the order it probes them
FilesToSearch(F, V, level, k) ==
    IF Len(V.files[level]) = 0 THEN <<>>
    ELSE IF level = 0
    THEN SortNewestFirst(F, Level0Candidates(F, V.files[0], k.u, 1))
    ELSE FoundFile(F, V.files[level], k, FindFile(F, V.files[level], k))

\* The locals of Get on entry; probed is the record of the probes made
GetEntry(k) ==
    [pc |-> "get", k |-> k, level |-> -1, files |-> <<>>, i |-> 0,
     last_file_read |-> 0, last_file_read_level |-> -1,
     seek_file |-> 0, seek_file_level |-> -1, probed |-> <<>>]

\* Runs the two loops up to the next call of table_cache_->Get; level is
\* kNumLevels when the outer loop has ended
RECURSIVE GetAdvance(_, _, _)
GetAdvance(F, V, g) ==
    IF g.i < Len(g.files) THEN g
    ELSE IF g.level + 1 >= kNumLevels THEN [g EXCEPT !.level = kNumLevels]
    ELSE GetAdvance(F, V, [g EXCEPT !.level = g.level + 1,
                                    !.files = FilesToSearch(F, V, g.level + 1, g.k),
                                    !.i = 0])

\* The body charging, on the second probe, the file about to be read
BeforeProbe_Current(F, g) ==
    [g EXCEPT !.seek_file = IF g.last_file_read # 0 /\ g.seek_file = 0
                            THEN g.files[g.i + 1] ELSE @,
              !.seek_file_level = IF g.last_file_read # 0 /\ g.seek_file = 0
                                  THEN g.level ELSE @,
              !.last_file_read = g.files[g.i + 1],
              !.last_file_read_level = g.level]

\* The body charging the file read last on every probe after the first
BeforeProbe_Latest(F, g) ==
    [g EXCEPT !.seek_file = IF g.last_file_read # 0
                            THEN g.last_file_read ELSE @,
              !.seek_file_level = IF g.last_file_read # 0
                                  THEN g.last_file_read_level ELSE @,
              !.last_file_read = g.files[g.i + 1],
              !.last_file_read_level = g.level]

\* The inner loop's body up to the call: the seek charge and last_file_read
BeforeProbe(F, g) ==
    [g EXCEPT !.seek_file = IF g.last_file_read # 0 /\ g.seek_file = 0
                            THEN g.last_file_read ELSE @,
              !.seek_file_level = IF g.last_file_read # 0 /\ g.seek_file = 0
                                  THEN g.last_file_read_level ELSE @,
              !.last_file_read = g.files[g.i + 1],
              !.last_file_read_level = g.level]

\* The saver after the call with outcome o
Saved(k, o) ==
    IF o.s = "OK" /\ o.called
    THEN SaveValue([state |-> "kNotFound", user_key |-> k.u, value |-> 0], o.entry)
    ELSE [state |-> "kNotFound", user_key |-> k.u, value |-> 0]

\* The inner loop's body from the call on: g has passed BeforeProbe, o is
\* the outcome of the call.  Gives [done, s, value, g].
AfterProbe(F, g, o, saver) ==
    LET g1 == [g EXCEPT !.i = @ + 1,
                        !.probed = Append(@, [number |-> F[g.files[g.i + 1]].number,
                                              level |-> g.level, o |-> o])]
    IN  IF o.s # "OK" THEN [done |-> TRUE, s |-> o.s, value |-> 0, g |-> g1]
        ELSE IF saver.state = "kFound"
        THEN [done |-> TRUE, s |-> "OK", value |-> saver.value, g |-> g1]
        ELSE IF saver.state = "kDeleted"
        THEN [done |-> TRUE, s |-> "NotFound", value |-> 0, g |-> g1]
        ELSE IF saver.state = "kCorrupt"
        THEN [done |-> TRUE, s |-> "Corruption", value |-> 0, g |-> g1]
        ELSE [done |-> FALSE, s |-> "OK", value |-> 0, g |-> g1]

\* The outcomes a call of table_cache_->Get can have
Outcomes ==
    { [s |-> "IOError", called |-> FALSE, entry |-> Null],
      [s |-> "OK", called |-> FALSE, entry |-> Null] }
    \cup { [s |-> "OK", called |-> TRUE,
            entry |-> [parsed |-> FALSE, user_key |-> 0, type |-> 0, value |-> 0]] }
    \cup { [s |-> "OK", called |-> TRUE,
            entry |-> [parsed |-> TRUE, user_key |-> u, type |-> ty, value |-> u + 10 * ty]] :
           u \in 1 .. MaxUserKey, ty \in {kTypeDeletion, kTypeValue} }

\* Where a file of the searched Version lies: a level and a user-key range
Placements ==
    { [level |-> l, lo |-> lo, hi |-> hi] :
      l \in 0 .. kMaxMemCompactLevel, lo \in 1 .. MaxUserKey, hi \in 1 .. MaxUserKey }

RECURSIVE PlacedFiles(_, _, _)
PlacedFiles(e, place, n) ==
    IF n > MaxGetFiles THEN e
    ELSE PlacedFiles(IF place[n].lo <= place[n].hi
                     THEN AddFile(e, place[n].level, n + 2, FlushSize,
                                  IKey(place[n].lo, 2), IKey(place[n].hi, 1))
                     ELSE e,
                     place, n + 1)

\* The memory after the files of place have been built into a Version and
\* the Version installed as current_
SearchedMemory(place) ==
    AppendVersion(BuildVersion(Construct(BytewiseName), PlacedFiles(EmptyEdit, place, 1)), 2)

InitGet ==
    /\ \E place \in [1 .. MaxGetFiles -> Placements] :
          /\ SearchedMemory(place).asserts = {}
          /\ SetMemInit(SearchedMemory(place))
    /\ disk = NewDBDisk
    /\ call = IdleCall
    /\ readers = <<>>
    /\ phase = "open"
    /\ ret = NoRet

\* Get returns Status s and value
GetReturn(s, value, g) ==
    /\ call' = IdleCall
    /\ ret' = [op |-> "Get", s |-> s, value |-> value, k |-> g.k, probed |-> g.probed,
               seek_file |-> g.seek_file, seek_file_level |-> g.seek_file_level]

\* Get goes on to the next file, or returns NotFound after the last level
GetContinue(g) ==
    IF g.level >= kNumLevels THEN GetReturn("NotFound", 0, g)
    ELSE call' = g /\ UNCHANGED ret

GetBegin ==
    /\ phase = "open" /\ call.pc = "idle" /\ ret.op = "none"
    /\ \E u \in 1 .. MaxUserKey, t \in 0 .. MaxTag :
          GetContinue(GetAdvance(metas, versions[vset.current_], GetEntry(IKey(u, t))))
    /\ UNCHANGED <<vset, versions, metas, alloc, asserts, disk, readers, phase>>

\* R is what AfterProbe gives
GetStep(R) ==
    IF R.done THEN GetReturn(R.s, R.value, R.g)
    ELSE GetContinue(GetAdvance(metas, versions[vset.current_], R.g))

GetProbe ==
    /\ phase = "open" /\ call.pc = "get"
    /\ \E o \in Outcomes :
          GetStep(AfterProbe(metas, BeforeProbe(metas, call), o, Saved(call.k, o)))
    /\ UNCHANGED <<vset, versions, metas, alloc, asserts, disk, readers, phase>>

NextGet == GetBegin \/ GetProbe

SpecGet == InitGet /\ [][NextGet]_vars

---------------------------------------------------------------------------
(* Version::Get: the order of the probes and the result.                    *)

\* The level-0 files of current_ whose user-key range holds u
Level0Holding(u) ==
    { f \in Range(versions[vset.current_].files[0]) :
        metas[f].smallest.u <= u /\ u <= metas[f].largest.u }

\* The files of level >= 1 of current_ whose largest key is not before k
NotBefore(level, k) ==
    { f \in Range(versions[vset.current_].files[level]) : Compare(metas[f].largest, k) >= 0 }

\* The one file of level >= 1 that may hold k.u: the first of NotBefore, when
\* its smallest user key is not above k.u
Candidate(level, k) ==
    { f \in NotBefore(level, k) :
        /\ \A g \in NotBefore(level, k) : Compare(metas[f].smallest, metas[g].smallest) <= 0
        /\ metas[f].smallest.u <= k.u }

\* The files a lookup of k may probe, as pairs <<level, number>>
MayProbe(k) ==
    { <<0, metas[f].number>> : f \in Level0Holding(k.u) }
    \cup UNION { { <<l, metas[f].number>> : f \in Candidate(l, k) } : l \in 1 .. kNumLevels - 1 }

\* Pair a is probed before pair b: a lower level first, and within level 0
\* the higher file number first
ProbedBefore(a, b) == a[1] < b[1] \/ (a[1] = b[1] /\ a[2] > b[2])

\* The probe with outcome o settles the lookup of user key u
Definitive(o, u) ==
    o.s # "OK" \/ (o.called /\ (~o.entry.parsed \/ o.entry.user_key = u))

\* The result Get owes to the definitive outcome o
ResultOf(o) ==
    IF o.s # "OK" THEN [s |-> o.s, value |-> 0]
    ELSE IF ~o.entry.parsed THEN [s |-> "Corruption", value |-> 0]
    ELSE IF o.entry.type = kTypeValue THEN [s |-> "OK", value |-> o.entry.value]
    ELSE [s |-> "NotFound", value |-> 0]

\* probed is an initial stretch of the fixed order for k in which no probe
\* but possibly the last is definitive
ProbedInOrder(probed, k) ==
    /\ \A i \in 1 .. Len(probed) : <<probed[i].level, probed[i].number>> \in MayProbe(k)
    /\ \A i \in 1 .. Len(probed) : \A b \in MayProbe(k) :
          ProbedBefore(b, <<probed[i].level, probed[i].number>>)
          => \E j \in 1 .. i - 1 : <<probed[j].level, probed[j].number>> = b
    /\ \A i \in 1 .. Len(probed) - 1 :
          /\ ProbedBefore(<<probed[i].level, probed[i].number>>,
                          <<probed[i + 1].level, probed[i + 1].number>>)
          /\ ~Definitive(probed[i].o, k.u)

\* C10: Version::Get probes the level-0 files holding the user key by
\* descending file number, then per level >= 1 the one file found by FindFile
\* when its smallest user key is not above the key; it stops at the first
\* probe that fails or holds an entry for the user key and returns that
\* probe's outcome (the error, OK with the value, NotFound for a tombstone,
\* Corruption for an unparseable key), and returns NotFound when every file
\* of the order was probed without such an entry.
C10_GetProbesInOrder ==
    /\ call.pc = "get" =>
          /\ ProbedInOrder(call.probed, call.k)
          /\ \A i \in 1 .. Len(call.probed) : ~Definitive(call.probed[i].o, call.k.u)
    /\ ret.op = "Get" =>
          /\ ProbedInOrder(ret.probed, ret.k)
          /\ IF Len(ret.probed) > 0 /\ Definitive(ret.probed[Len(ret.probed)].o, ret.k.u)
             THEN [s |-> ret.s, value |-> ret.value] = ResultOf(ret.probed[Len(ret.probed)].o)
             ELSE /\ Len(ret.probed) = Cardinality(MayProbe(ret.k))
                  /\ ret.s = "NotFound"

\* A lookup has passed two level-0 files, newest first, without an entry for
\* the key and has found the value in a file of a deeper level
C10_Witness ==
    /\ ret.op = "Get" /\ ret.s = "OK" /\ ret.value = 10 + ret.k.u
    /\ Len(ret.probed) = 3
    /\ ret.probed[1].level = 0 /\ ret.probed[2].level = 0 /\ ret.probed[3].level >= 1
    /\ ret.probed[1].number > ret.probed[2].number
    /\ ret.probed[1].o.called /\ ~ret.probed[2].o.called

---------------------------------------------------------------------------
(* The compaction planner.  A Compaction c is the record                    *)
(* [level, inputs, grandparents, input_version, edit]; inputs[0] and        *)
(* inputs[1] are lists of FileMetaData ids.                                  *)

MaxCompactKey == 3
MaxCompactRecords == 7
MaxPlannedLevels == 1
MaxOutputs == 1

\* VersionSet::GetRange over a nonempty list: the loop from index i on
RECURSIVE GetRangeFrom(_, _, _, _)
GetRangeFrom(F, inputs, i, r) ==
    IF i > Len(inputs) THEN r
    ELSE GetRangeFrom(F, inputs, i + 1,
            [smallest |-> IF Compare(F[inputs[i]].smallest, r.smallest) < 0
                          THEN F[inputs[i]].smallest ELSE r.smallest,
             largest |-> IF Compare(F[inputs[i]].largest, r.largest) > 0
                         THEN F[inputs[i]].largest ELSE r.largest])

\* The range of the first file alone
GetRange_First(F, inputs) ==
    [smallest |-> F[inputs[1]].smallest, largest |-> F[inputs[1]].largest]

GetRange(F, inputs) ==
    GetRangeFrom(F, inputs, 2, [smallest |-> F[inputs[1]].smallest,
                                largest |-> F[inputs[1]].largest])

GetRange2(F, inputs1, inputs2) == GetRange(F, inputs1 \o inputs2)

\* GetOverlappingInputs(level, &r.smallest, &r.largest, ...)
RangeInputs(F, V, level, r) ==
    GetOverlappingInputs(F, V, level, Some(r.smallest), Some(r.largest))

\* Compaction::Compaction
NewCompaction(level) ==
    [level |-> level, inputs |-> [which \in 0 .. 1 |-> <<>>], grandparents |-> <<>>,
     input_version |-> 0, edit |-> EmptyEdit,
     level_ptrs |-> [lvl \in Levels |-> 0],
     grandparent_index |-> 0, seen_key |-> FALSE, overlapped_bytes |-> 0]

\* The replacement without the comparison of the two level+1 sets
Grown_AnyParents(F, in0, in1, expanded0, expanded1) ==
    IF /\ Len(expanded0) > Len(in0)
       /\ TotalFileSize(F, in1) + TotalFileSize(F, expanded0)
            < kExpandedCompactionByteSizeLimit
    THEN [in0 |-> expanded0, in1 |-> expanded1]
    ELSE [in0 |-> in0, in1 |-> in1]

\* Lines 1469-1506: expanded0 and expanded1 replace the inputs when level
\* grows and level+1 does not
Grown(F, in0, in1, expanded0, expanded1) ==
    IF /\ Len(expanded0) > Len(in0)
       /\ TotalFileSize(F, in1) + TotalFileSize(F, expanded0)
            < kExpandedCompactionByteSizeLimit
       /\ Len(expanded1) = Len(in1)
    THEN [in0 |-> expanded0, in1 |-> expanded1]
    ELSE [in0 |-> in0, in1 |-> in1]

Expanded1(F, V, level, in0, in1, expanded0) ==
    Grown(F, in0, in1, expanded0, RangeInputs(F, V, level + 1, GetRange(F, expanded0)))

\* Lines 1452-1507: inputs_[0] and inputs_[1] as SetupOtherInputs leaves them
GrowInputs(F, V, level, in0, in1) ==
    IF Len(in1) = 0 THEN [in0 |-> in0, in1 |-> in1]
    ELSE Expanded1(F, V, level, in0, in1,
                   RangeInputs(F, V, level, GetRange2(F, in0, in1)))

\* The end of SetupOtherInputs storing the largest key of the inputs it
\* was called with
SetupFinish_Unexpanded(M, c, g) ==
    [M |-> [M EXCEPT !.vset.compact_pointer_[c.level] =
                         Some(GetRange(M.metas, c.inputs[0]).largest)],
     c |-> Some([c EXCEPT
              !.inputs = [which \in 0 .. 1 |-> IF which = 0 THEN g.in0 ELSE g.in1],
              !.grandparents =
                  IF c.level + 2 < kNumLevels
                  THEN RangeInputs(M.metas, M.versions[M.vset.current_], c.level + 2,
                                   GetRange2(M.metas, g.in0, g.in1))
                  ELSE <<>>,
              !.edit = SetCompactPointer(@, c.level,
                                         GetRange(M.metas, c.inputs[0]).largest)])]

\* Lines 1509-1533: g holds the inputs
SetupFinish(M, c, g) ==
    [M |-> [M EXCEPT !.vset.compact_pointer_[c.level] =
                         Some(GetRange(M.metas, g.in0).largest)],
     c |-> Some([c EXCEPT
              !.inputs = [which \in 0 .. 1 |-> IF which = 0 THEN g.in0 ELSE g.in1],
              !.grandparents =
                  IF c.level + 2 < kNumLevels
                  THEN RangeInputs(M.metas, M.versions[M.vset.current_], c.level + 2,
                                   GetRange2(M.metas, g.in0, g.in1))
                  ELSE <<>>,
              !.edit = SetCompactPointer(@, c.level, GetRange(M.metas, g.in0).largest)])]

\* VersionSet::SetupOtherInputs; gives [M, c] with c the Compaction
SetupOtherInputs(M, c) ==
    SetupFinish(M, c,
        GrowInputs(M.metas, M.versions[M.vset.current_], c.level, c.inputs[0],
                   RangeInputs(M.metas, M.versions[M.vset.current_], c.level + 1,
                               GetRange(M.metas, c.inputs[0]))))

\* The picked file alone, on level 0 as well
PickedInputs_NoWiden(M, level, in0) == in0

\* Lines 1421-1440: the Compaction takes its reference on current_ and, on
\* level 0, every file that overlaps the picked one
PickedInputs(M, level, in0) ==
    IF level = 0
    THEN RangeInputs(M.metas, M.versions[M.vset.current_], 0, GetRange(M.metas, in0))
    ELSE in0

WithInputs(M, level, in0) ==
    IF Len(in0) = 0
    THEN [M |-> Fail(M, "!c->inputs_[0].empty()"), c |-> Null]
    ELSE SetupOtherInputs(Ref(M, M.vset.current_),
                          [NewCompaction(level) EXCEPT !.input_version = M.vset.current_,
                                                       !.inputs[0] = in0])

\* The search taking a file whose largest key is at the pointer as well
FirstAfterPointer_AtPointer(F, files, ptr) ==
    LET after == { i \in 1 .. Len(files) :
                     IsNull(ptr) \/ Compare(F[files[i]].largest, Val(ptr)) >= 0 }
    IN  IF after = {} THEN <<files[1]>>
        ELSE <<files[CHOOSE i \in after : \A j \in after : i <= j]>>

\* Lines 1398-1411: the first file after compact_pointer_[level], or the
\* first file of the level
FirstAfterPointer(F, files, ptr) ==
    LET after == { i \in 1 .. Len(files) :
                     IsNull(ptr) \/ Compare(F[files[i]].largest, Val(ptr)) > 0 }
    IN  IF after = {} THEN <<files[1]>>
        ELSE <<files[CHOOSE i \in after : \A j \in after : i <= j]>>

\* PickCompaction looking at the seek candidate first
PickCompaction_SeekFirst(M) ==
    IF M.versions[M.vset.current_].file_to_compact # 0
    THEN WithInputs(M, M.versions[M.vset.current_].file_to_compact_level,
            PickedInputs(M, M.versions[M.vset.current_].file_to_compact_level,
                         <<M.versions[M.vset.current_].file_to_compact>>))
    ELSE IF ScoreAtLeastOne(M.versions[M.vset.current_].compaction_score)
    THEN WithInputs(M, M.versions[M.vset.current_].compaction_level,
            PickedInputs(M, M.versions[M.vset.current_].compaction_level,
                FirstAfterPointer(M.metas,
                    M.versions[M.vset.current_].files[
                        M.versions[M.vset.current_].compaction_level],
                    M.vset.compact_pointer_[
                        M.versions[M.vset.current_].compaction_level])))
    ELSE [M |-> M, c |-> Null]

\* VersionSet::PickCompaction; c is Null when there is nothing to compact
PickCompaction(M) ==
    IF ScoreAtLeastOne(M.versions[M.vset.current_].compaction_score)
    THEN WithInputs(
            Check(Check(M, M.versions[M.vset.current_].compaction_level >= 0, "level >= 0"),
                  M.versions[M.vset.current_].compaction_level + 1 < kNumLevels,
                  "level+1 < config::kNumLevels"),
            M.versions[M.vset.current_].compaction_level,
            PickedInputs(M, M.versions[M.vset.current_].compaction_level,
                FirstAfterPointer(M.metas,
                    M.versions[M.vset.current_].files[
                        M.versions[M.vset.current_].compaction_level],
                    M.vset.compact_pointer_[
                        M.versions[M.vset.current_].compaction_level])))
    ELSE IF M.versions[M.vset.current_].file_to_compact # 0
    THEN WithInputs(M, M.versions[M.vset.current_].file_to_compact_level,
            PickedInputs(M, M.versions[M.vset.current_].file_to_compact_level,
                         <<M.versions[M.vset.current_].file_to_compact>>))
    ELSE [M |-> M, c |-> Null]

\* The loop of CompactRange stopping only once the total is above limit
RECURSIVE TruncateInputs_Above(_, _, _, _, _)
TruncateInputs_Above(F, inputs, limit, i, total) ==
    IF i > Len(inputs) THEN inputs
    ELSE IF total + F[inputs[i]].file_size > limit THEN SubSeq(inputs, 1, i)
    ELSE TruncateInputs_Above(F, inputs, limit, i + 1, total + F[inputs[i]].file_size)

\* Lines 1549-1560: the prefix of inputs whose sizes first reach limit
RECURSIVE TruncateInputs(_, _, _, _, _)
TruncateInputs(F, inputs, limit, i, total) ==
    IF i > Len(inputs) THEN inputs
    ELSE IF total + F[inputs[i]].file_size >= limit THEN SubSeq(inputs, 1, i)
    ELSE TruncateInputs(F, inputs, limit, i + 1, total + F[inputs[i]].file_size)

RangeCompaction(M, level, inputs) ==
    IF Len(inputs) = 0 THEN [M |-> M, c |-> Null]
    ELSE WithInputs(M, level,
                    TruncateInputs(M.metas, inputs, MaxFileSizeForLevel(level), 1, 0))

\* VersionSet::CompactRange; begin and end are nullable internal keys
CompactRange(M, level, begin, end) ==
    RangeCompaction(M, level,
        GetOverlappingInputs(M.metas, M.versions[M.vset.current_], level, begin, end))

\* IsTrivialMove refusing grandparents of exactly the limit
IsTrivialMove_Below(F, c) ==
    /\ Len(c.inputs[0]) = 1
    /\ Len(c.inputs[1]) = 0
    /\ TotalFileSize(F, c.grandparents) < kMaxGrandParentOverlapBytes

\* Compaction::IsTrivialMove
IsTrivialMove(F, c) ==
    /\ Len(c.inputs[0]) = 1
    /\ Len(c.inputs[1]) = 0
    /\ TotalFileSize(F, c.grandparents) <= kMaxGrandParentOverlapBytes

\* IsBaseLevelForKey moving the cursor of a level past a file that starts
\* after user_key
RECURSIVE IsBaseLevelForKey_SkipAhead(_, _, _, _, _)
IsBaseLevelForKey_SkipAhead(F, V, c, user_key, lvl) ==
    IF lvl >= kNumLevels THEN [c |-> c, base |-> TRUE]
    ELSE IF c.level_ptrs[lvl] < Len(V.files[lvl])
    THEN IF UserCompare(user_key, F[V.files[lvl][c.level_ptrs[lvl] + 1]].largest.u) <= 0
            /\ UserCompare(user_key, F[V.files[lvl][c.level_ptrs[lvl] + 1]].smallest.u) >= 0
         THEN [c |-> c, base |-> FALSE]
         ELSE IsBaseLevelForKey_SkipAhead(F, V,
                  [c EXCEPT !.level_ptrs[lvl] = @ + 1], user_key, lvl)
    ELSE IsBaseLevelForKey_SkipAhead(F, V, c, user_key, lvl + 1)

\* Compaction::IsBaseLevelForKey from level lvl on (lines 1614-1631); the
\* result is the compaction with its cursors and the answer
RECURSIVE IsBaseLevelForKey(_, _, _, _, _)
IsBaseLevelForKey(F, V, c, user_key, lvl) ==
    IF lvl >= kNumLevels THEN [c |-> c, base |-> TRUE]
    ELSE IF c.level_ptrs[lvl] < Len(V.files[lvl])
    THEN IF UserCompare(user_key, F[V.files[lvl][c.level_ptrs[lvl] + 1]].largest.u) <= 0
         THEN IF UserCompare(user_key,
                     F[V.files[lvl][c.level_ptrs[lvl] + 1]].smallest.u) >= 0
              THEN [c |-> c, base |-> FALSE]
              ELSE IsBaseLevelForKey(F, V, c, user_key, lvl + 1)
         ELSE IsBaseLevelForKey(F, V, [c EXCEPT !.level_ptrs[lvl] = @ + 1], user_key, lvl)
    ELSE IsBaseLevelForKey(F, V, c, user_key, lvl + 1)

\* Compaction::AddInputDeletions
AddInputDeletions(F, c, edit) ==
    [edit EXCEPT !.deleted_files =
        @ \cup UNION { { <<c.level + which, F[c.inputs[which][i]].number>> :
                           i \in 1 .. Len(c.inputs[which]) } : which \in 0 .. 1 }]

\* Compaction::ReleaseInputs
ReleaseInputs(M, c) == IF c.input_version # 0 THEN Unref(M, c.input_version) ELSE M

---------------------------------------------------------------------------
(* Flushes and compactions against the version set.  The executor of a     *)
(* compaction works with mu released between the plan and the install, and *)
(* a memtable flush may be installed in between.  Every call into the      *)
(* environment succeeds here.                                              *)

\* LogAndApply from the opened manifest to its return, with every call
\* into the environment succeeding; R is [M, D, call].  A failed assertion
\* ends the call where it stands.
RECURSIVE RunToReturn(_)
RunToReturn(R) ==
    IF R.M.asserts # {} THEN [M |-> R.M, D |-> R.D]
    ELSE IF R.call.pc = "snapshot"
    THEN RunToReturn(LogAndApplySnapshot(R.M, R.D, R.call, TRUE))
    ELSE IF R.call.pc = "write"
    THEN RunToReturn(LogAndApplyWrite(R.M, R.D, R.call, TRUE))
    ELSE IF R.call.pc = "sync"
    THEN RunToReturn(LogAndApplySync(R.M, R.D, R.call, TRUE, TRUE))
    ELSE IF R.call.pc = "setcurrent"
    THEN RunToReturn(LogAndApplySetCurrent(R.M, R.D, R.call, TRUE))
    ELSE LogAndApplyInstall(R.M, R.D, R.call)

\* VersionSet::LogAndApply returning OK: gives [M, D]
LogAndApplyOK(M, D, edit) == RunToReturn(LogAndApplyBuild(M, D, edit, TRUE))

\* VersionSet::NewFileNumber, n times
TakeFileNumbers(M, n) == [M EXCEPT !.vset.next_file_number_ = @ + n]

InitCompact ==
    /\ SetMemInit(Recover(Construct(BytewiseName), NewDBDisk).M)
    /\ disk = NewDBDisk
    /\ call = IdleCall
    /\ readers = <<>>
    /\ phase = "open"
    /\ ret = NoRet

\* The manifest has room for one more record
CanApply ==
    vset.descriptor_log_ # 0
    => Len(disk.manifests[vset.descriptor_log_].recs) < MaxCompactRecords

\* The call has left memory M and directory R.D
Applied(R, c) ==
    IF R.M.asserts # {} THEN Abort(R.M)
    ELSE /\ SetMem(R.M)
         /\ disk' = R.D
         /\ call' = c
         /\ UNCHANGED <<readers, phase, ret>>

\* A memtable holding one user key is flushed to the level that
\* PickLevelForMemTableOutput returns, also while a compaction is at work
FlushMemTable ==
    /\ phase = "open" /\ call.pc \in {"idle", "compact"}
    /\ CanApply
    /\ \E u \in 1 .. MaxCompactKey :
          Applied(LogAndApplyOK(TakeFileNumbers(Mem, 1), disk,
                      SetLogNumber(SetPrevLogNumber(
                          AddFile(EmptyEdit,
                                  PickLevelForMemTableOutput(metas, versions[vset.current_], u, u),
                                  vset.next_file_number_, FlushSize, IKey(u, 2), IKey(u, 1)),
                          0), vset.next_file_number_)),
                  call)

\* No compaction is at work, and fewer than MaxPlannedLevels levels have had
\* one planned
CanPlan ==
    /\ phase = "open" /\ call.pc = "idle"
    /\ Cardinality({ l \in Levels : ~IsNull(vset.compact_pointer_[l]) }) < MaxPlannedLevels

\* R is [M, c] as the planner gives it; a NULL plan changes nothing
Planned(R) ==
    /\ ~IsNull(R.c)
    /\ IF R.M.asserts # {} THEN Abort(R.M)
       ELSE /\ SetMem(R.M)
            /\ call' = [pc |-> "compact", c |-> Val(R.c)]
            /\ UNCHANGED <<disk, readers, phase, ret>>

\* A manual compaction of [begin, end] at level is planned
PlanCompactRange ==
    /\ CanPlan
    /\ \E level \in 0 .. kNumLevels - 2 :
       \E begin \in {Null} \cup { Some(SeekKey(u)) : u \in 1 .. MaxCompactKey } :
       \E end \in {Null} \cup { Some(LimitKey(u)) : u \in 1 .. MaxCompactKey } :
          Planned(CompactRange(Mem, level, begin, end))

\* The background thread asks for the next compaction
PlanPickCompaction ==
    /\ CanPlan
    /\ Planned(PickCompaction(Mem))

\* The user-key ranges of the tables a merge may write: in key order,
\* disjoint, inside the range of all inputs
OutputRanges(r) ==
    { o \in UNION { [1 .. n -> { [lo |-> lo, hi |-> hi] :
                                   lo \in r.smallest.u .. r.largest.u,
                                   hi \in r.smallest.u .. r.largest.u }]
                    : n \in 0 .. MaxOutputs } :
        /\ \A i \in 1 .. Len(o) : o[i].lo <= o[i].hi
        /\ \A i \in 1 .. Len(o) - 1 : o[i].hi < o[i + 1].lo }

RECURSIVE AddOutputs(_, _, _, _, _)
AddOutputs(edit, level, number, o, i) ==
    IF i > Len(o) THEN edit
    ELSE AddOutputs(AddFile(edit, level, number, FlushSize,
                            IKey(o[i].lo, 2), IKey(o[i].hi, 1)),
                    level, number + 1, o, i + 1)

\* The edit of a trivial move: the file goes from level to level+1
MoveEdit(F, c) ==
    AddFile(DeleteFile(c.edit, c.level, F[c.inputs[0][1]].number),
            c.level + 1, F[c.inputs[0][1]].number, F[c.inputs[0][1]].file_size,
            F[c.inputs[0][1]].smallest, F[c.inputs[0][1]].largest)

\* The edit of a merge that wrote the tables o, numbered from number on
MergeEdit(F, c, number, o) ==
    AddOutputs(AddInputDeletions(F, c, c.edit), c.level + 1, number, o, 1)

\* The Compaction is released after its edit was applied
Released(R, c) ==
    IF R.M.asserts # {} THEN Abort(R.M)
    ELSE /\ SetMem(ReleaseInputs(R.M, c))
         /\ disk' = R.D
         /\ call' = IdleCall
         /\ UNCHANGED <<readers, phase, ret>>

\* The executor installs the result of the planned compaction
InstallCompaction ==
    /\ phase = "open" /\ call.pc = "compact"
    /\ CanApply
    /\ IF IsTrivialMove(metas, call.c)
       THEN Released(LogAndApplyOK(Mem, disk, MoveEdit(metas, call.c)), call.c)
       ELSE \E o \in OutputRanges(GetRange2(metas, call.c.inputs[0], call.c.inputs[1])) :
               Released(LogAndApplyOK(TakeFileNumbers(Mem, Len(o)), disk,
                            MergeEdit(metas, call.c, vset.next_file_number_, o)),
                        call.c)

NextCompact ==
    \/ FlushMemTable
    \/ PlanCompactRange
    \/ PlanPickCompaction
    \/ InstallCompaction

SpecCompact == InitCompact /\ [][NextCompact]_vars

\* C1: in every Version that is current, the files of each level >= 1 are
\* in ascending order of smallest key with each file's largest key below
\* the next file's smallest key, and no overlap assertion of SaveTo or
\* MaybeAddFile has failed, when the edits applied are flushes placed by
\* PickLevelForMemTableOutput and the results of compactions planned by
\* PickCompaction or CompactRange.
C1_LevelsSortedDisjoint ==
    /\ asserts \cap {"MaybeAddFile: must not overlap",
                     "SaveTo: overlapping ranges in same level"} = {}
    /\ phase = "open" =>
          \A l \in 1 .. kNumLevels - 1 :
             \A i \in 1 .. Len(versions[vset.current_].files[l]) - 1 :
                Compare(metas[versions[vset.current_].files[l][i]].largest,
                        metas[versions[vset.current_].files[l][i + 1]].smallest) < 0

---------------------------------------------------------------------------
(* Two callers of LogAndApply.  Each takes mu, enters LogAndApply with a   *)
(* flush and holds mu up to line 903; the record is written, synced and    *)
(* CURRENT set with mu released, and mu is taken again for the install.    *)
(* call maps each caller to its call.  Every call into the environment     *)
(* succeeds here.                                                          *)

MaxCallers == 2

Callers == 1 .. MaxCallers

InitCallers ==
    /\ SetMemInit(Recover(Construct(BytewiseName), NewDBDisk).M)
    /\ disk = NewDBDisk
    /\ call = [t \in Callers |-> IdleCall]
    /\ readers = <<>>
    /\ phase = "open"
    /\ ret = NoRet

\* No caller is between its entry and the mu->Unlock() of line 903
MuUnheld == \A t \in Callers : call[t].pc # "snapshot"

\* Caller t has got to R = [M, D, call]
CallerAt(t, R) ==
    IF R.M.asserts # {} THEN Abort(R.M)
    ELSE /\ SetMem(R.M)
         /\ disk' = R.D
         /\ call' = [call EXCEPT ![t] = R.call]
         /\ UNCHANGED <<readers, phase, ret>>

\* Caller t, holding mu, enters LogAndApply with the flush of [lo, hi]
CallerEnter(t) ==
    /\ phase = "open" /\ call[t].pc = "idle" /\ MuUnheld
    /\ \E lo \in 1 .. MaxUserKey, hi \in 1 .. MaxUserKey :
          /\ lo <= hi
          /\ CallerAt(t, LogAndApplyBuild(TakeFileNumbers(Mem, 1), disk,
                 SetLogNumber(SetPrevLogNumber(
                     AddFile(EmptyEdit,
                             PickLevelForMemTableOutput(metas, versions[vset.current_], lo, hi),
                             vset.next_file_number_, FlushSize, IKey(lo, 2), IKey(hi, 1)),
                     0), vset.next_file_number_),
                 TRUE))

\* Lines 896-934 for the call c, one call into the environment at a time
LogAndApplyIO(M, D, c) ==
    IF c.pc = "snapshot" THEN LogAndApplySnapshot(M, D, c, TRUE)
    ELSE IF c.pc = "write" THEN LogAndApplyWrite(M, D, c, TRUE)
    ELSE IF c.pc = "sync" THEN LogAndApplySync(M, D, c, TRUE, TRUE)
    ELSE LogAndApplySetCurrent(M, D, c, TRUE)

\* Caller t writes the snapshot under mu, or the record, the sync or CURRENT
\* with mu released
CallerIO(t) ==
    /\ phase = "open" /\ call[t].pc \in {"snapshot", "write", "sync", "setcurrent"}
    /\ CallerAt(t, LogAndApplyIO(Mem, disk, call[t]))

\* R is [M, D] as the install leaves them
CallerDone(t, R) ==
    /\ SetMem(R.M)
    /\ disk' = R.D
    /\ call' = [call EXCEPT ![t] = [pc |-> "done", s |-> call[t].s, edit |-> call[t].edit]]
    /\ UNCHANGED <<readers, phase, ret>>

\* Caller t takes mu again, installs and returns
CallerReturn(t) ==
    /\ phase = "open" /\ call[t].pc = "install" /\ MuUnheld
    /\ CallerDone(t, LogAndApplyInstall(Mem, disk, call[t]))

NextCallers == \E t \in Callers : CallerEnter(t) \/ CallerIO(t) \/ CallerReturn(t)

SpecCallers == InitCallers /\ [][NextCallers]_vars

\* The file numbers of the Version that is current
CurrentNumbers ==
    UNION { { metas[f].number : f \in Range(versions[vset.current_].files[l]) } : l \in Levels }

\* C11: when a second caller has run LogAndApply while the first had mu
\* released for its manifest write and both calls have returned OK, the
\* current Version holds the files of both edits and is what a replay of
\* the manifest gives: no edit whose call returned OK is lost.
C11_BothEditsInstalled ==
    (phase = "open" /\ \A t \in Callers : call[t].pc = "done" /\ call[t].s = "OK")
    => /\ \A t \in Callers :
             \A i \in 1 .. Len(call[t].edit.new_files) :
                call[t].edit.new_files[i][2].number \in CurrentNumbers
       /\ Replay(disk).s = "OK"
       /\ Replay(disk).numbers = NumbersOf(Mem, vset.current_)

---------------------------------------------------------------------------
(* PickCompaction on a Version of up to MaxPickFiles tables on levels 0    *)
(* and 1, after seeks have been charged to its files.                      *)

MaxPickFiles == 4
MaxSeeksLeft == 1
MaxExhausted == 1

\* UpdateStats taking every exhausted file as the candidate
UpdateStats_Replace(M, v, stats) ==
    IF stats.seek_file # 0
    THEN IF M.metas[stats.seek_file].allowed_seeks - 1 <= 0
         THEN [M EXCEPT !.metas[stats.seek_file].allowed_seeks = @ - 1,
                        !.versions[v].file_to_compact = stats.seek_file,
                        !.versions[v].file_to_compact_level = stats.seek_file_level]
         ELSE [M EXCEPT !.metas[stats.seek_file].allowed_seeks = @ - 1]
    ELSE M

\* Version::UpdateStats on Version v with stats = [seek_file, seek_file_level]
UpdateStats(M, v, stats) ==
    IF stats.seek_file # 0
    THEN IF M.metas[stats.seek_file].allowed_seeks - 1 <= 0
            /\ M.versions[v].file_to_compact = 0
         THEN [M EXCEPT !.metas[stats.seek_file].allowed_seeks = @ - 1,
                        !.versions[v].file_to_compact = stats.seek_file,
                        !.versions[v].file_to_compact_level = stats.seek_file_level]
         ELSE [M EXCEPT !.metas[stats.seek_file].allowed_seeks = @ - 1]
    ELSE M

\* The sizes of the tables added: a flushed memtable on levels 0 and 1, on
\* level 1 also a table half as large as the limit of an expanded
\* compaction, and on level 2 a table as large as the limit of the
\* grandparents of a trivial move
TableSizes(level) ==
    IF level = 0 THEN { FlushSize }
    ELSE IF level = 1 THEN { FlushSize, kExpandedCompactionByteSizeLimit \div 2 }
    ELSE { kMaxGrandParentOverlapBytes }

\* The memory after edit was built into a Version and the Version installed
Edited(M, edit) == AppendVersion(BuildVersion(M, edit), M.alloc.vid)

\* Every file has had all but MaxSeeksLeft of its allowed seeks charged
Worn(M) ==
    [M EXCEPT !.metas = [f \in DOMAIN M.metas |->
                            [M.metas[f] EXCEPT !.allowed_seeks = MaxSeeksLeft]]]

InitPick ==
    /\ SetMemInit(Recover(Construct(BytewiseName), NewDBDisk).M)
    /\ disk = NewDBDisk
    /\ call = IdleCall
    /\ readers = <<>>
    /\ phase = "open"
    /\ ret = NoRet

\* M is the memory with the new table in current_
TableAdded(M) ==
    IF M.asserts # {} THEN Abort(M)
    ELSE /\ SetMem(Worn(M))
         /\ UNCHANGED <<disk, call, readers, phase, ret>>

\* An edit adds one table on one of levels, of a size in sizes[level], as
\* long as fewer than limit tables were added; Gets charge seeks to it until
\* MaxSeeksLeft are left
AddTableOn(levels, limit, sizes) ==
    /\ phase = "open" /\ ret.op = "none"
    /\ vset.next_file_number_ < 3 + limit
    /\ \A f \in DOMAIN metas : metas[f].allowed_seeks > 0
    /\ \E level \in levels, lo \in 1 .. MaxCompactKey, hi \in 1 .. MaxCompactKey :
        \E size \in sizes[level] :
          /\ lo <= hi
          /\ TableAdded(Edited(TakeFileNumbers(Mem, 1),
                 AddFile(EmptyEdit, level, vset.next_file_number_, size,
                         IKey(lo, 2), IKey(hi, 1))))

AddTable == AddTableOn(0 .. 2, MaxPickFiles, [l \in Levels |-> TableSizes(l)])

\* A Get on current_ charges its seek to a file that has seeks left
ChargeSeek ==
    /\ phase = "open" /\ ret.op = "none"
    /\ Cardinality({ f \in DOMAIN metas : metas[f].allowed_seeks <= 0 }) < MaxExhausted
    /\ \E level \in Levels :
          \E i \in 1 .. Len(versions[vset.current_].files[level]) :
             /\ metas[versions[vset.current_].files[level][i]].allowed_seeks > 0
             /\ SetMem(UpdateStats(Mem, vset.current_,
                    [seek_file |-> versions[vset.current_].files[level][i],
                     seek_file_level |-> level]))
    /\ UNCHANGED <<disk, call, readers, phase, ret>>

\* R is [M, c] as PickCompaction gives it; pre is the memory before the
\* call, trivial what IsTrivialMove answers for the compaction returned
PickReturned(R) ==
    IF R.M.asserts # {} THEN Abort(R.M)
    ELSE /\ SetMem(R.M)
         /\ ret' = [op |-> "PickCompaction", pre |-> Mem, c |-> R.c,
                    trivial |-> IF IsNull(R.c) THEN FALSE
                                ELSE IsTrivialMove(R.M.metas, Val(R.c))]
         /\ UNCHANGED <<disk, call, readers, phase>>

\* The background thread asks for the next compaction and, when there is
\* one, whether it is a trivial move
DoPickCompaction ==
    /\ phase = "open" /\ ret.op = "none"
    /\ PickReturned(PickCompaction(Mem))

NextPick == AddTable \/ ChargeSeek \/ DoPickCompaction

SpecPick == InitPick /\ [][NextPick]_vars

\* The Version PickCompaction looked at and the files of the memory before
PreV == ret.pre.versions[ret.pre.vset.current_]

PreF == ret.pre.metas

\* The user-key ranges of files f and g intersect
UserOverlap(f, g) ==
    PreF[f].smallest.u <= PreF[g].largest.u /\ PreF[g].smallest.u <= PreF[f].largest.u

\* The file a size-triggered compaction starts from: the first file of the
\* level whose largest key is past the level's compact pointer, or the
\* first file of the level when there is none
SizePicked ==
    LET files == PreV.files[PreV.compaction_level]
        ptr == ret.pre.vset.compact_pointer_[PreV.compaction_level]
        past == { i \in 1 .. Len(files) :
                    IsNull(ptr) \/ Compare(PreF[files[i]].largest, Val(ptr)) > 0 }
    IN  IF past = {} THEN files[1] ELSE files[Max({ -i : i \in past }) * (-1)]

SizeTrigger == ScoreAtLeastOne(PreV.compaction_score)

SeekTrigger == PreV.file_to_compact # 0

\* C12: PickCompaction returns a compaction at compaction_level, started
\* from the file after that level's compact pointer, whenever
\* compaction_score >= 1, seek candidate or not; a compaction started from
\* file_to_compact at file_to_compact_level when the score is below 1 and a
\* candidate is pending; and none, with the memory unchanged, otherwise.
C12_SizeBeforeSeek ==
    ret.op = "PickCompaction" =>
       IF SizeTrigger
       THEN /\ ~IsNull(ret.c)
            /\ Val(ret.c).level = PreV.compaction_level
            /\ Val(ret.c).input_version = ret.pre.vset.current_
            /\ SizePicked \in Range(Val(ret.c).inputs[0])
       ELSE IF SeekTrigger
       THEN /\ ~IsNull(ret.c)
            /\ Val(ret.c).level = PreV.file_to_compact_level
            /\ Val(ret.c).input_version = ret.pre.vset.current_
            /\ PreV.file_to_compact \in Range(Val(ret.c).inputs[0])
       ELSE /\ IsNull(ret.c)
            /\ Mem = ret.pre

\* Both triggers were pending and the compaction returned leaves the seek
\* candidate out
C12_Witness ==
    /\ ret.op = "PickCompaction" /\ SizeTrigger /\ SeekTrigger
    /\ ~IsNull(ret.c)
    /\ PreV.file_to_compact \notin Range(Val(ret.c).inputs[0])

\* The file a compaction returned by PickCompaction was started from
Picked == IF SizeTrigger THEN SizePicked ELSE PreV.file_to_compact

\* C13: for a compaction at level 0 that PickCompaction returns, inputs[0]
\* holds the picked file, and no level-0 file of the input Version outside
\* inputs[0] has a user-key range that meets the range of a file inside.
C13_Level0InputsClosed ==
    (ret.op = "PickCompaction" /\ ~IsNull(ret.c) /\ Val(ret.c).level = 0) =>
       /\ Picked \in Range(Val(ret.c).inputs[0])
       /\ \A f \in Range(PreV.files[0]) \ Range(Val(ret.c).inputs[0]) :
             \A g \in Range(Val(ret.c).inputs[0]) : ~UserOverlap(f, g)

\* A level-0 compaction whose inputs hold a file that does not meet the
\* picked file itself, with a level-0 file left out
C13_Witness ==
    /\ ret.op = "PickCompaction" /\ ~IsNull(ret.c) /\ Val(ret.c).level = 0
    /\ \E g \in Range(Val(ret.c).inputs[0]) : ~UserOverlap(g, Picked)
    /\ Range(PreV.files[0]) \ Range(Val(ret.c).inputs[0]) # {}

\* The files of all that are linked to a file of S by a chain of overlaps
RECURSIVE OverlapClosure(_, _)
OverlapClosure(S, all) ==
    IF \E f \in all \ S : \E g \in S : UserOverlap(f, g)
    THEN OverlapClosure(S \cup { f \in all : \E g \in S : UserOverlap(f, g) }, all)
    ELSE S

\* The inputs[0] that PickCompaction hands to SetupOtherInputs
Given ==
    IF Val(ret.c).level = 0 THEN OverlapClosure({Picked}, Range(PreV.files[0]))
    ELSE {Picked}

\* The files of level+1 whose user-key range meets the range of the files S
Parents(S) ==
    { f \in Range(PreV.files[Val(ret.c).level + 1]) :
        /\ PreF[f].smallest.u <= Max({ PreF[g].largest.u : g \in S })
        /\ PreF[f].largest.u >= -Max({ -PreF[g].smallest.u : g \in S }) }

\* C14: after SetupOtherInputs, inputs[1] is the set of level+1 files that
\* overlap the range of the inputs[0] it was given; inputs[0] is the given
\* set, or a strictly larger set whose bytes plus those of inputs[1] are
\* below kExpandedCompactionByteSizeLimit and whose range overlaps as many
\* level+1 files as the given one.
C14_ExpansionKeepsParents ==
    (ret.op = "PickCompaction" /\ ~IsNull(ret.c)) =>
       /\ Range(Val(ret.c).inputs[1]) = Parents(Given)
       /\ Len(Val(ret.c).inputs[1]) = Cardinality(Parents(Given))
       /\ \/ Range(Val(ret.c).inputs[0]) = Given
          \/ /\ Given \subseteq Range(Val(ret.c).inputs[0])
             /\ Len(Val(ret.c).inputs[0]) > Cardinality(Given)
             /\ TotalFileSize(PreF, Val(ret.c).inputs[0])
                  + TotalFileSize(PreF, Val(ret.c).inputs[1])
                  < kExpandedCompactionByteSizeLimit
             /\ Cardinality(Parents(Range(Val(ret.c).inputs[0])))
                  = Cardinality(Parents(Given))

\* SetupOtherInputs has replaced inputs[0] by a larger set, and level+1 holds
\* a file that is no input
C14_Witness ==
    /\ ret.op = "PickCompaction" /\ ~IsNull(ret.c)
    /\ Val(ret.c).inputs[1] # <<>>
    /\ Len(Val(ret.c).inputs[0]) > Cardinality(Given)
    /\ Range(PreV.files[Val(ret.c).level + 1]) # Range(Val(ret.c).inputs[1])

\* The bytes of the files S
RECURSIVE SetBytes(_)
SetBytes(S) ==
    IF S = {} THEN 0
    ELSE LET f == CHOOSE g \in S : TRUE
         IN  PreF[f].file_size + SetBytes(S \ {f})

\* C15: IsTrivialMove answers true exactly when the compaction has one file
\* in inputs[0], none in inputs[1], and grandparents of at most
\* kMaxGrandParentOverlapBytes in total; with several files in inputs[0] or
\* any file in inputs[1] it answers false.
C15_TrivialMoveExactly ==
    (ret.op = "PickCompaction" /\ ~IsNull(ret.c)) =>
       /\ ret.trivial <=>
             /\ Cardinality(Range(Val(ret.c).inputs[0])) = 1
             /\ Range(Val(ret.c).inputs[1]) = {}
             /\ SetBytes(Range(Val(ret.c).grandparents)) <= kMaxGrandParentOverlapBytes
       /\ Len(Val(ret.c).inputs[0]) > 1 => ~ret.trivial
       /\ Len(Val(ret.c).inputs[1]) > 0 => ~ret.trivial

\* A trivial move whose grandparents weigh exactly the limit
C15_Witness ==
    /\ ret.op = "PickCompaction" /\ ~IsNull(ret.c)
    /\ ret.trivial
    /\ SetBytes(Range(Val(ret.c).grandparents)) = kMaxGrandParentOverlapBytes

----------------------------------------------------------------------------
(* IsBaseLevelForKey during one compaction: the Version holds tables on      *)
(* level 0 and on levels 2 and 3, a manual compaction of level 0 is set up,  *)
(* and the merge asks for user keys one after the other.                     *)

MaxBaseFiles == 3
MaxBaseCalls == 3

AddDeepTable == AddTableOn({0, 2, 3}, MaxBaseFiles, [l \in Levels |-> TableSizes(l)])

\* CompactRange(0, NULL, NULL); ret keeps the compaction, the keys asked,
\* the answers and the cursors after every call
BeginCompaction ==
    /\ phase = "open" /\ ret.op = "none"
    /\ ~IsNull(CompactRange(Mem, 0, Null, Null).c)
    /\ SetMem(CompactRange(Mem, 0, Null, Null).M)
    /\ ret' = [op |-> "compaction", c |-> Val(CompactRange(Mem, 0, Null, Null).c),
               keys |-> <<>>, answers |-> <<>>,
               ptrs |-> <<Val(CompactRange(Mem, 0, Null, Null).c).level_ptrs>>]
    /\ UNCHANGED <<disk, call, readers, phase>>

\* R is [c, base] as IsBaseLevelForKey gives it for user_key
BaseLevelAnswered(user_key, R) ==
    /\ ret' = [ret EXCEPT !.c = R.c,
                          !.keys = Append(@, user_key),
                          !.answers = Append(@, R.base),
                          !.ptrs = Append(@, R.c.level_ptrs)]
    /\ UNCHANGED <<vset, versions, metas, alloc, asserts, disk, call, readers, phase>>

AskBaseLevel ==
    /\ phase = "open" /\ ret.op = "compaction"
    /\ Len(ret.keys) < MaxBaseCalls
    /\ \E user_key \in 1 .. MaxCompactKey :
          BaseLevelAnswered(user_key,
              IsBaseLevelForKey(metas, versions[ret.c.input_version], ret.c,
                                user_key, ret.c.level + 2))

NextBase == AddDeepTable \/ BeginCompaction \/ AskBaseLevel

SpecBase == InitPick /\ [][NextBase]_vars

\* No file of the compaction's input Version on a level from level+2 on
\* holds user_key in its user-key range
NoDeeperFileHolds(user_key) ==
    \A lvl \in (ret.c.level + 2) .. (kNumLevels - 1) :
       \A f \in Range(versions[ret.c.input_version].files[lvl]) :
          ~(metas[f].smallest.u <= user_key /\ user_key <= metas[f].largest.u)

\* C16: when the keys asked so far within one compaction are non-decreasing,
\* every answer of IsBaseLevelForKey is true exactly when no file on a
\* level from level+2 on holds the key; and the cursors level_ptrs never
\* move back from one call to the next.
C16_BaseLevelAsStatelessScan ==
    ret.op = "compaction" =>
       /\ (\A i \in 1 .. Len(ret.keys) - 1 : ret.keys[i] <= ret.keys[i + 1])
            => \A i \in 1 .. Len(ret.keys) :
                  ret.answers[i] = NoDeeperFileHolds(ret.keys[i])
       /\ \A i \in 1 .. Len(ret.ptrs) - 1 : \A lvl \in Levels :
             ret.ptrs[i][lvl] <= ret.ptrs[i + 1][lvl]

\* Three calls with rising keys, answered false, true and false, with a
\* cursor moved past a file
C16_Witness ==
    /\ ret.op = "compaction" /\ Len(ret.keys) = 3
    /\ ret.keys[1] < ret.keys[2] /\ ret.keys[2] < ret.keys[3]
    /\ ~ret.answers[1] /\ ret.answers[2] /\ ~ret.answers[3]
    /\ \E lvl \in Levels : ret.ptrs[4][lvl] > 0

----------------------------------------------------------------------------
(* GetOverlappingInputs on level 0: the Version holds tables on level 0      *)
(* only, and the query is asked with begin and end set or null.              *)

MaxOverlapFiles == 4

AddLevel0Table == AddTableOn({0}, MaxOverlapFiles, [l \in Levels |-> TableSizes(l)])

\* The nullable bounds of a query over the user keys lo .. hi
QueryBounds ==
    { <<Null, Null>> }
      \cup { <<Some(SeekKey(lo)), Null>> : lo \in 1 .. MaxCompactKey }
      \cup { <<Null, Some(LimitKey(hi))>> : hi \in 1 .. MaxCompactKey }
      \cup { <<Some(SeekKey(lo)), Some(LimitKey(hi))>> :
               lo \in 1 .. MaxCompactKey, hi \in 1 .. MaxCompactKey }

\* current_->GetOverlappingInputs(0, begin, end, &inputs)
AskOverlappingInputs ==
    /\ phase = "open" /\ ret.op = "none"
    /\ \E q \in QueryBounds :
          /\ (~IsNull(q[1]) /\ ~IsNull(q[2])) => Val(q[1]).u <= Val(q[2]).u
          /\ ret' = [op |-> "GetOverlappingInputs", pre |-> Mem,
                     begin |-> q[1], end |-> q[2],
                     inputs |-> GetOverlappingInputs(metas, versions[vset.current_],
                                                     0, q[1], q[2])]
    /\ UNCHANGED <<vset, versions, metas, alloc, asserts, disk, call, readers, phase>>

NextOverlap == AddLevel0Table \/ AskOverlappingInputs

SpecOverlap == InitPick /\ [][NextOverlap]_vars

\* The user-key range of file f meets the range asked for
InQuery(f) ==
    /\ IsNull(ret.begin) \/ PreF[f].largest.u >= Val(ret.begin).u
    /\ IsNull(ret.end) \/ PreF[f].smallest.u <= Val(ret.end).u

\* C17: GetOverlappingInputs on level 0, with either bound possibly null,
\* returns a set that holds every level-0 file overlapping the range asked
\* for and is transitively closed: no level-0 file outside it has a user-key
\* range that meets the range of a file inside it.
C17_Level0OverlapClosed ==
    ret.op = "GetOverlappingInputs" =>
       /\ \A f \in Range(PreV.files[0]) : InQuery(f) => f \in Range(ret.inputs)
       /\ \A f \in Range(PreV.files[0]) \ Range(ret.inputs) :
             \A g \in Range(ret.inputs) : ~UserOverlap(f, g)

\* The set returned holds a file outside the range asked for, reached
\* through a file that came later in the list, and leaves a file out
C17_Witness ==
    /\ ret.op = "GetOverlappingInputs"
    /\ \E i \in 1 .. Len(PreV.files[0]) : \E j \in i + 1 .. Len(PreV.files[0]) :
          /\ PreV.files[0][i] \in Range(ret.inputs)
          /\ ~InQuery(PreV.files[0][i])
          /\ InQuery(PreV.files[0][j])
    /\ Range(PreV.files[0]) \ Range(ret.inputs) # {}

----------------------------------------------------------------------------
(* FindFile on the files of level 1, which the Builder keeps sorted and      *)
(* disjoint, for internal keys around the keys of the tables.                *)

MaxFindFiles == 3

AddLevel1Table == AddTableOn({1}, MaxFindFiles, [l \in Levels |-> TableSizes(l)])

\* FindFile(icmp, current_->files_[1], key)
AskFindFile ==
    /\ phase = "open" /\ ret.op = "none"
    /\ \E u \in 0 .. MaxCompactKey + 1, t \in 0 .. MaxTag :
          ret' = [op |-> "FindFile", pre |-> Mem, key |-> IKey(u, t),
                  index |-> FindFile(metas, versions[vset.current_].files[1], IKey(u, t))]
    /\ UNCHANGED <<vset, versions, metas, alloc, asserts, disk, call, readers, phase>>

NextFind == AddLevel1Table \/ AskFindFile

SpecFind == InitPick /\ [][NextFind]_vars

\* The indices (from 0) of the level-1 files whose largest key is at or
\* after the key asked for
AtOrAfter ==
    { i \in 0 .. Len(PreV.files[1]) - 1 :
        Compare(PreF[PreV.files[1][i + 1]].largest, ret.key) >= 0 }

\* C18: on a sorted and disjoint list FindFile returns the smallest index i
\* with files[i].largest >= key, and the length of the list when no file
\* qualifies, the empty list included.
C18_FindFileSmallestIndex ==
    ret.op = "FindFile" =>
       /\ AtOrAfter # {} =>
             ret.index \in AtOrAfter /\ \A i \in AtOrAfter : ret.index <= i
       /\ AtOrAfter = {} => ret.index = Len(PreV.files[1])

\* The key asked for is the largest key of a file that is neither the first
\* nor the last of three, and FindFile returns that file
C18_Witness ==
    /\ ret.op = "FindFile" /\ Len(PreV.files[1]) = 3
    /\ ret.index = 1
    /\ PreF[PreV.files[1][2]].largest = ret.key

----------------------------------------------------------------------------
(* Finalize on built Versions: tables on levels 0, 1 and 2 whose sizes give  *)
(* the levels equal and unequal scores, and tables on the last level.        *)

MaxScoreFiles == 3

\* A quarter and a half of MaxBytesForLevel on levels 1 and 2, so that a
\* level scores what one or two level-0 files score
ScoreSizes(level) ==
    IF level = 1 THEN { MaxBytesBase \div 4, MaxBytesBase \div 2 }
    ELSE IF level = 2 THEN { (10 * MaxBytesBase) \div 4, (10 * MaxBytesBase) \div 2 }
    ELSE { FlushSize }

AddScoredTable ==
    AddTableOn({0, 1, 2, kNumLevels - 1}, MaxScoreFiles,
               [l \in Levels |-> ScoreSizes(l)])

NextFinalize == AddScoredTable \/ DoPickCompaction

SpecFinalize == InitPick /\ [][NextFinalize]_vars

\* The bytes of the files S of the memory
RECURSIVE BytesOf(_)
BytesOf(S) ==
    IF S = {} THEN 0
    ELSE LET f == CHOOSE g \in S : TRUE
         IN  metas[f].file_size + BytesOf(S \ {f})

\* The score of a level of current_ is Weight(level) / Limit(level), both
\* counted in quarters of a megabyte from level 1 on (every table size of
\* the model is a multiple of that), so that the products stay in 32 bits
Weight(level) ==
    IF level = 0 THEN Len(versions[vset.current_].files[0])
    ELSE BytesOf(Range(versions[vset.current_].files[level])) \div (1048576 \div 4)

Limit(level) ==
    IF level = 0 THEN kL0_CompactionTrigger ELSE 40 * Pow10(level - 1)

ScoresHigher(l, m) == Weight(l) * Limit(m) > Weight(m) * Limit(l)

\* C19: the level Finalize stores is a level in 0..L-2 whose score no other
\* level in 0..L-2 exceeds and that every lower level falls short of, and
\* the score stored is that level's: the file count over
\* kL0_CompactionTrigger on level 0, the bytes over MaxBytesForLevel on a
\* level from 1 on.  The last level is never stored.
C19_FinalizeStoresLowestBest ==
    phase = "open" =>
       LET V == versions[vset.current_]
       IN  /\ V.compaction_level \in 0 .. kNumLevels - 2
           /\ \A m \in 0 .. kNumLevels - 2 :
                 /\ ~ScoresHigher(m, V.compaction_level)
                 /\ m < V.compaction_level => ScoresHigher(V.compaction_level, m)
           /\ V.compaction_level = 0 =>
                 V.compaction_score = [num |-> Len(V.files[0]),
                                       base |-> kL0_CompactionTrigger, exp |-> 0]
           /\ V.compaction_level > 0 =>
                 V.compaction_score
                    = [num |-> BytesOf(Range(V.files[V.compaction_level])),
                       base |-> 10 * 1048576,
                       exp |-> V.compaction_level - 1]

\* Levels 1 and 2 share the highest score, above level 0, with a table on
\* the last level, and level 1 is stored
C19_Witness ==
    /\ phase = "open"
    /\ ~ScoresHigher(1, 2) /\ ~ScoresHigher(2, 1)
    /\ ScoresHigher(1, 0)
    /\ versions[vset.current_].files[kNumLevels - 1] # <<>>
    /\ versions[vset.current_].compaction_level = 1

----------------------------------------------------------------------------
(* One edit that deletes a file number on a level and adds a file of that    *)
(* number on the same level, built into a Version from current_.             *)

MaxReplaceFiles == 2

AddBaseTable == AddTableOn(0 .. 1, MaxReplaceFiles, [l \in Levels |-> TableSizes(l)])

\* M is the memory after the edit was applied, saved and installed
TableReplaced(M, level, d) ==
    IF M.asserts # {} THEN Abort(M)
    ELSE /\ SetMem(M)
         /\ ret' = [op |-> "replaced", pre |-> Mem, level |-> level, file |-> d]
         /\ UNCHANGED <<disk, call, readers, phase>>

\* The edit holds DeleteFile(level, number) and AddFile(level, number, ...),
\* for a number that current_ holds on the level or does not hold
ReplaceTable ==
    /\ phase = "open" /\ ret.op = "none"
    /\ \E level \in 0 .. 1, number \in 3 .. vset.next_file_number_,
          lo \in 1 .. MaxCompactKey, hi \in 1 .. MaxCompactKey :
          /\ lo <= hi
          /\ TableReplaced(
                Edited(Mem,
                       AddFile(DeleteFile(EmptyEdit, level, number), level, number,
                               FlushSize, IKey(lo, 2), IKey(hi, 1))),
                level,
                [number |-> number, file_size |-> FlushSize,
                 smallest |-> IKey(lo, 2), largest |-> IKey(hi, 1)])

NextReplace == AddBaseTable \/ ReplaceTable

SpecReplace == InitPick /\ [][NextReplace]_vars

\* C20: when one edit deletes file number n on a level and adds a file with
\* number n on that level, the Version that Apply and SaveTo produce holds
\* the added file on that level.
C20_AddCancelsDelete ==
    ret.op = "replaced" =>
       \E f \in Range(versions[vset.current_].files[ret.level]) :
          /\ metas[f].number = ret.file.number
          /\ metas[f].smallest = ret.file.smallest
          /\ metas[f].largest = ret.file.largest
          /\ metas[f].file_size = ret.file.file_size

\* The Version before held the number on that level, on a level past 0
C20_Witness ==
    /\ ret.op = "replaced" /\ ret.level = 1
    /\ \E f \in Range(PreV.files[ret.level]) : PreF[f].number = ret.file.number

----------------------------------------------------------------------------
(* Edits through LogAndApply and their inverses: an edit deletes files of    *)
(* current_ and adds new tables; the inverse edit deletes those tables and   *)
(* adds the deleted files back.  The database is also closed and recovered.  *)

MaxEditFiles == 3
MaxEditAdds == 2

\* The tables an edit may add, numbered from number on: none, one or two
NewTables(number) ==
    UNION { [1 .. n -> { <<level, lo, hi>> : level \in 0 .. 1,
                           lo \in 1 .. MaxUserKey, hi \in 1 .. MaxUserKey }]
            : n \in 0 .. MaxEditAdds }

RECURSIVE AddTables(_, _, _, _)
AddTables(edit, number, t, i) ==
    IF i > Len(t) THEN edit
    ELSE AddTables(AddFile(edit, t[i][1], number + i - 1, FlushSize,
                           IKey(t[i][2], 2), IKey(t[i][3], 1)),
                   number, t, i + 1)

\* The (level, number) pairs of the files of Version v
PairsOf(M, v) ==
    UNION { { <<l, M.metas[f].number>> : f \in Range(M.versions[v].files[l]) }
            : l \in Levels }

\* The edit that undoes edit on the Version v of M: edit's new files deleted,
\* its deleted files added with the metadata they have in v
RECURSIVE AddBack(_, _, _, _, _)
AddBack(M, v, pairs, i, edit) ==
    IF i > Len(pairs) THEN edit
    ELSE LET f == CHOOSE g \in Range(M.versions[v].files[pairs[i][1]]) :
                     M.metas[g].number = pairs[i][2]
         IN  AddBack(M, v, pairs, i + 1,
                     AddFile(edit, pairs[i][1], M.metas[f].number, M.metas[f].file_size,
                             M.metas[f].smallest, M.metas[f].largest))

InverseEdit(M, v, edit) ==
    AddBack(M, v, SortedPairs(edit.deleted_files), 1,
            [EmptyEdit EXCEPT !.deleted_files =
                { <<edit.new_files[i][1], edit.new_files[i][2].number>> :
                    i \in 1 .. Len(edit.new_files) }])

\* LogAndApply(edit) has returned OK and left R = [M, D]
EditApplied(R, pre, edit, inverse) ==
    IF R.M.asserts # {} THEN Abort(R.M)
    ELSE /\ SetMem(R.M)
         /\ disk' = R.D
         /\ ret' = [op |-> "LogAndApply", pre |-> pre, edit |-> edit, inverse |-> inverse]
         /\ UNCHANGED <<call, readers, phase>>

\* An edit whose deleted files are in current_ and whose added tables are new
ApplyEdit ==
    /\ phase = "open"
    /\ ret.op = "LogAndApply" => ~ret.inverse
    /\ vset.descriptor_log_ # 0
         => Len(disk.manifests[vset.descriptor_log_].recs) < MaxRecords
    /\ \E del \in SUBSET PairsOf(Mem, vset.current_) :
       \E t \in NewTables(vset.next_file_number_) :
          /\ vset.next_file_number_ + Len(t) <= 3 + MaxEditFiles
          /\ del # {} \/ Len(t) > 0
          /\ EditApplied(
                LogAndApplyOK(TakeFileNumbers(Mem, Len(t)), disk,
                    AddTables([EmptyEdit EXCEPT !.deleted_files = del],
                              vset.next_file_number_, t, 1)),
                Mem,
                AddTables([EmptyEdit EXCEPT !.deleted_files = del],
                          vset.next_file_number_, t, 1),
                FALSE)

\* The inverse of the edit applied last
ApplyInverse ==
    /\ phase = "open"
    /\ ret.op = "LogAndApply" /\ ~ret.inverse
    /\ EditApplied(
          LogAndApplyOK(Mem, disk,
              InverseEdit(ret.pre, ret.pre.vset.current_, ret.edit)),
          ret.pre, ret.edit, TRUE)

\* The database is closed and opened again: a new VersionSet recovers
Reopened(R) ==
    /\ R.s = "OK"
    /\ SetMem(R.M)
    /\ ret' = [op |-> "Recover", pre |-> Mem]
    /\ UNCHANGED <<disk, call, readers, phase>>

Reopen ==
    /\ phase = "open" /\ ret.op = "LogAndApply"
    /\ Reopened(Recover(Construct(BytewiseName), disk))

NextEdits == ApplyEdit \/ ApplyInverse \/ Reopen

SpecEdits == InitCompact /\ [][NextEdits]_vars

\* The files of level l of Version v of M, without the objects' identities
TablesOf(M, v, l) ==
    { [number |-> M.metas[f].number, file_size |-> M.metas[f].file_size,
       smallest |-> M.metas[f].smallest, largest |-> M.metas[f].largest] :
        f \in Range(M.versions[v].files[l]) }

\* C21: after an edit whose deleted files were all in the Version V and
\* whose added files were all new, and then its inverse edit, both through
\* LogAndApply, current_ holds on every level the files V held.
C21_InverseEditRestores ==
    (ret.op = "LogAndApply" /\ ret.inverse) =>
       \A l \in Levels :
          /\ TablesOf(Mem, vset.current_, l)
               = TablesOf(ret.pre, ret.pre.vset.current_, l)
          /\ Len(versions[vset.current_].files[l])
               = Len(ret.pre.versions[ret.pre.vset.current_].files[l])

\* The edit undone deleted two files of V and added a table
C21_Witness ==
    /\ ret.op = "LogAndApply" /\ ret.inverse
    /\ Cardinality(ret.edit.deleted_files) = 2
    /\ Len(ret.edit.new_files) > 0

\* C25 (as stated): in every Version produced by LogAndApply or Recover the
\* level-0 list is in ascending file-number order, the newest file last.
C25_Level0ByFileNumber ==
    \A v \in DOMAIN versions :
       \A i \in 1 .. Len(versions[v].files[0]) - 1 :
          metas[versions[v].files[0][i]].number
             < metas[versions[v].files[0][i + 1]].number

\* C25 (as amended): in every Version produced by LogAndApply or Recover the
\* level-0 list is in ascending order of the files' smallest internal keys,
\* files of equal smallest key in ascending file-number order.
C25_Level0BySmallestKey ==
    \A v \in DOMAIN versions :
       \A i \in 1 .. Len(versions[v].files[0]) - 1 :
          LET f == metas[versions[v].files[0][i]]
              g == metas[versions[v].files[0][i + 1]]
          IN  \/ Compare(f.smallest, g.smallest) < 0
              \/ Compare(f.smallest, g.smallest) = 0 /\ f.number < g.number

\* A recovered Version whose level-0 list holds a newer file before an older
\* one, and two files of equal smallest key
C25_Witness ==
    /\ ret.op = "Recover" /\ phase = "open"
    /\ Len(versions[vset.current_].files[0]) = 3
    /\ \E i \in 1 .. 2 :
          metas[versions[vset.current_].files[0][i]].number
             > metas[versions[vset.current_].files[0][i + 1]].number
    /\ \E i \in 1 .. 2 :
          metas[versions[vset.current_].files[0][i]].smallest
             = metas[versions[vset.current_].files[0][i + 1]].smallest

----------------------------------------------------------------------------
(* CompactRange asked on built Versions: tables on levels 0 and 1, and a     *)
(* manual compaction of either level with begin and end set or null.         *)

MaxRangeFiles == 3

AddRangeTable == AddTableOn(0 .. 1, MaxRangeFiles, [l \in Levels |-> TableSizes(l)])

\* R is [M, c] as CompactRange gives it; chosen is the list CompactRange
\* hands to SetupOtherInputs (empty when it returns NULL)
RangeReturned(R, level, q, chosen) ==
    IF R.M.asserts # {} THEN Abort(R.M)
    ELSE /\ SetMem(R.M)
         /\ ret' = [op |-> "CompactRange", pre |-> Mem, level |-> level,
                    begin |-> q[1], end |-> q[2], chosen |-> chosen, c |-> R.c]
         /\ UNCHANGED <<disk, call, readers, phase>>

AskCompactRange ==
    /\ phase = "open" /\ ret.op = "none"
    /\ \E level \in 0 .. 1, q \in QueryBounds :
          /\ (~IsNull(q[1]) /\ ~IsNull(q[2])) => Val(q[1]).u <= Val(q[2]).u
          /\ RangeReturned(CompactRange(Mem, level, q[1], q[2]), level, q,
                TruncateInputs(metas,
                    GetOverlappingInputs(metas, versions[vset.current_], level, q[1], q[2]),
                    MaxFileSizeForLevel(level), 1, 0))

NextRange == AddRangeTable \/ AskCompactRange \/ DoPickCompaction

SpecRange == InitPick /\ [][NextRange]_vars

\* The files of the level asked for whose range meets the query, in list
\* order
OverlappingAsked == SelectSeq(PreV.files[ret.level], InQuery)

IsPrefix(s, t) == Len(s) <= Len(t) /\ s = SubSeq(t, 1, Len(s))

C23_Level0SelectsEveryFile ==
    (ret.op = "CompactRange" /\ ret.level = 0 /\ IsNull(ret.begin) /\ IsNull(ret.end)
       /\ ~IsNull(ret.c)) =>
       /\ Range(ret.chosen) = Range(PreV.files[0])
       /\ Range(Val(ret.c).inputs[0]) = Range(PreV.files[0])

----------------------------------------------------------------------------
(* PickLevelForMemTableOutput asked on built Versions: tables on levels 0    *)
(* to 3, those of levels 2 and 3 as large as kMaxGrandParentOverlapBytes.    *)

MaxLevelFiles == 3

AddLevelTable ==
    AddTableOn(0 .. 3, MaxLevelFiles,
               [l \in Levels |-> IF l < 2 THEN { FlushSize }
                                 ELSE { kMaxGrandParentOverlapBytes }])

\* current_->PickLevelForMemTableOutput(lo, hi)
AskPickLevel ==
    /\ phase = "open" /\ ret.op = "none"
    /\ \E lo \in 1 .. MaxCompactKey, hi \in 1 .. MaxCompactKey :
          /\ lo <= hi
          /\ ret' = [op |-> "PickLevelForMemTableOutput", pre |-> Mem,
                     lo |-> lo, hi |-> hi,
                     level |-> PickLevelForMemTableOutput(metas,
                                  versions[vset.current_], lo, hi)]
    /\ UNCHANGED <<vset, versions, metas, alloc, asserts, disk, call, readers, phase>>

NextLevel == AddLevelTable \/ AskPickLevel

SpecLevel == InitPick /\ [][NextLevel]_vars

\* The files of level l whose user-key range meets the range asked for
Meeting(l) ==
    { f \in Range(PreV.files[l]) :
         PreF[f].smallest.u <= ret.hi /\ PreF[f].largest.u >= ret.lo }

\* The flush may go from level j to level j + 1
MayPush(j) ==
    /\ Meeting(j + 1) = {}
    /\ SetBytes(Meeting(j + 2)) <= kMaxGrandParentOverlapBytes

\* C24: PickLevelForMemTableOutput returns 0 when a level-0 file overlaps
\* the range, and otherwise the largest r <= kMaxMemCompactLevel such that
\* for every j < r no file of level j + 1 overlaps the range and the bytes of
\* level j + 2 overlapping it are at most kMaxGrandParentOverlapBytes; when
\* r > 0 no file of levels 0 .. r overlaps the range.
C24_PickLevelDeepestFree ==
    ret.op = "PickLevelForMemTableOutput" =>
       /\ Meeting(0) # {} => ret.level = 0
       /\ Meeting(0) = {} =>
             /\ ret.level \in 0 .. kMaxMemCompactLevel
             /\ \A j \in 0 .. ret.level - 1 : MayPush(j)
             /\ \A r \in ret.level + 1 .. kMaxMemCompactLevel :
                   \E j \in 0 .. r - 1 : ~MayPush(j)
       /\ ret.level > 0 => \A l \in 0 .. ret.level : Meeting(l) = {}

\* The answer is level 1 because two files of level 3 hold too many bytes,
\* while no file of levels 0 to 2 overlaps the range
C24_Witness ==
    /\ ret.op = "PickLevelForMemTableOutput"
    /\ ret.level = 1
    /\ Meeting(2) = {}
    /\ SetBytes(Meeting(3)) > kMaxGrandParentOverlapBytes

----------------------------------------------------------------------------
(* Version::Get: the file charged with the seek.                             *)

\* g holds the probes made so far and the stats of a Get: seek_file is set
\* exactly from the second probe on, to the first file probed and its level
ChargesFirstProbed(g) ==
    /\ g.seek_file # 0 <=> Len(g.probed) >= 2
    /\ Len(g.probed) >= 2 =>
          /\ metas[g.seek_file].number = g.probed[1].number
          /\ g.seek_file_level = g.probed[1].level
    /\ Len(g.probed) < 2 => g.seek_file = 0 /\ g.seek_file_level = -1

----------------------------------------------------------------------------
(* UpdateStats called again and again on one Version whose files have        *)
(* MaxSeeksLeft seeks left.                                                  *)

MaxStatsFiles == 3
MaxStatsCalls == 4

\* What Version::UpdateStats returns on Version v of M
UpdateStatsResult(M, v, stats) ==
    /\ stats.seek_file # 0
    /\ M.metas[stats.seek_file].allowed_seeks - 1 <= 0
    /\ M.versions[v].file_to_compact = 0

AddStatsTable ==
    AddTableOn(0 .. 1, MaxStatsFiles, [l \in Levels |-> { FlushSize }])

\* The stats a Get on Version v can hand to UpdateStats: no file, or a file
\* of v with its level
StatsOn(V) ==
    { [seek_file |-> 0, seek_file_level |-> -1] }
      \cup UNION { { [seek_file |-> V.files[l][i], seek_file_level |-> l] :
                       i \in 1 .. Len(V.files[l]) } : l \in Levels }

\* current_->UpdateStats(stats); calls counts the calls made
CallUpdateStats ==
    /\ phase = "open"
    /\ ret.op \in {"none", "UpdateStats"}
    /\ ret.op = "UpdateStats" => ret.calls < MaxStatsCalls
    /\ \E stats \in StatsOn(versions[vset.current_]) :
          /\ SetMem(UpdateStats(Mem, vset.current_, stats))
          /\ ret' = [op |-> "UpdateStats", pre |-> Mem, stats |-> stats,
                     result |-> UpdateStatsResult(Mem, vset.current_, stats),
                     calls |-> IF ret.op = "none" THEN 1 ELSE ret.calls + 1]
    /\ UNCHANGED <<disk, call, readers, phase>>

NextStats == AddStatsTable \/ CallUpdateStats

SpecStats == InitPick /\ [][NextStats]_vars

\* C27: over the UpdateStats calls on one Version, a file_to_compact that is
\* set never changes; a call returns true exactly when it sets
\* file_to_compact (to its seek_file and level), every other call returns
\* false, also one that drives another file's allowed_seeks to zero or below
\* while a candidate is pending; a call with no seek_file changes nothing.
C27_CandidateSetOnce ==
    ret.op = "UpdateStats" =>
       LET V == versions[vset.current_]
       IN  /\ vset.current_ = ret.pre.vset.current_
           /\ PreV.file_to_compact # 0 =>
                 /\ V.file_to_compact = PreV.file_to_compact
                 /\ V.file_to_compact_level = PreV.file_to_compact_level
           /\ ret.result <=> (PreV.file_to_compact = 0 /\ V.file_to_compact # 0)
           /\ ret.result =>
                 /\ V.file_to_compact = ret.stats.seek_file
                 /\ V.file_to_compact_level = ret.stats.seek_file_level
                 /\ metas[V.file_to_compact].allowed_seeks <= 0
           /\ ret.stats.seek_file = 0 => Mem = ret.pre /\ ~ret.result

\* A call has driven a second file's allowed_seeks to zero while another
\* file was pending, and has returned false
C27_Witness ==
    /\ ret.op = "UpdateStats"
    /\ PreV.file_to_compact # 0
    /\ ret.stats.seek_file # 0
    /\ ret.stats.seek_file # PreV.file_to_compact
    /\ PreF[ret.stats.seek_file].allowed_seeks > 0
    /\ metas[ret.stats.seek_file].allowed_seeks <= 0
    /\ ~ret.result

----------------------------------------------------------------------------
(* One table from its creation to its exhaustion: LogAndApply adds it,       *)
(* UpdateStats charges it, a trivial move or a Recover makes a new metadata  *)
(* object for the same file number.                                          *)

MaxOverdraw == 1
MaxMoveLevel == 1
MaxInstalls == 2

\* The sizes of the table: a flushed memtable, and a table of the target
\* size, whose allowance is above the floor
SeekSizes == { FlushSize, kTargetFileSize }

\* The one file of current_ in M and its level
SeekLevel(M) ==
    CHOOSE l \in Levels : M.versions[M.vset.current_].files[l] # <<>>

SeekFile(M) == M.versions[M.vset.current_].files[SeekLevel(M)][1]

\* R is [M, D] after a LogAndApply or a Recover; charged counts the charges
\* against the table's present object (0 when the call has made a new one),
\* worn tells whether an earlier object of the number had been charged,
\* installs counts the calls after the flush
Installed(R, op, charged, worn, installs) ==
    IF R.M.asserts # {} THEN Abort(R.M)
    ELSE /\ SetMem(R.M)
         /\ disk' = R.D
         /\ ret' = [op |-> op, pre |-> Mem, charged |-> charged, worn |-> worn,
                    installs |-> installs, result |-> FALSE]
         /\ UNCHANGED <<call, readers, phase>>

\* A flush adds the table on level 0
AddFreshTable ==
    /\ phase = "open" /\ ret.op = "none"
    /\ \E size \in SeekSizes :
          Installed(LogAndApplyOK(TakeFileNumbers(Mem, 1), disk,
                       AddFile(EmptyEdit, 0, vset.next_file_number_, size,
                               IKey(1, 2), IKey(1, 1))),
                    "LogAndApply", 0, FALSE, 0)

\* A Get charges a seek to the table
ChargeTable ==
    /\ phase = "open" /\ ret.op # "none"
    /\ metas[SeekFile(Mem)].allowed_seeks > -MaxOverdraw
    /\ SetMem(UpdateStats(Mem, vset.current_,
                 [seek_file |-> SeekFile(Mem), seek_file_level |-> SeekLevel(Mem)]))
    /\ ret' = [op |-> "UpdateStats", pre |-> Mem, charged |-> ret.charged + 1,
               worn |-> ret.worn, installs |-> ret.installs,
               result |-> UpdateStatsResult(Mem, vset.current_,
                             [seek_file |-> SeekFile(Mem),
                              seek_file_level |-> SeekLevel(Mem)])]
    /\ UNCHANGED <<disk, call, readers, phase>>

\* The edit of a trivial move: the table is deleted on its level and added,
\* with the same number, on the next
MoveTable ==
    /\ phase = "open" /\ ret.op # "none"
    /\ SeekLevel(Mem) < MaxMoveLevel /\ ret.installs < MaxInstalls
    /\ vset.descriptor_log_ # 0
         => Len(disk.manifests[vset.descriptor_log_].recs) < MaxRecords
    /\ Installed(LogAndApplyOK(Mem, disk,
                    AddFile(DeleteFile(EmptyEdit, SeekLevel(Mem),
                                       metas[SeekFile(Mem)].number),
                            SeekLevel(Mem) + 1,
                            metas[SeekFile(Mem)].number,
                            metas[SeekFile(Mem)].file_size,
                            metas[SeekFile(Mem)].smallest,
                            metas[SeekFile(Mem)].largest)),
                 "LogAndApply", 0, ret.worn \/ ret.charged > 0,
                 ret.installs + 1)

\* An edit that leaves the table alone: the new Version shares its object
KeepTable ==
    /\ phase = "open" /\ ret.op = "UpdateStats" /\ ret.installs < MaxInstalls
    /\ vset.descriptor_log_ # 0
         => Len(disk.manifests[vset.descriptor_log_].recs) < MaxRecords
    /\ Installed(LogAndApplyOK(Mem, disk, EmptyEdit), "LogAndApply",
                 ret.charged, ret.worn, ret.installs + 1)

\* The database is closed and opened again after the table was charged
ReopenTable ==
    /\ phase = "open" /\ ret.op = "UpdateStats" /\ ret.installs < MaxInstalls
    /\ Recover(Construct(BytewiseName), disk).s = "OK"
    /\ Installed([M |-> Recover(Construct(BytewiseName), disk).M, D |-> disk],
                 "Recover", 0, TRUE, ret.installs + 1)

NextSeeks == AddFreshTable \/ ChargeTable \/ MoveTable \/ KeepTable \/ ReopenTable

SpecSeeks == InitCompact /\ [][NextSeeks]_vars

\* The allowance the claim gives a file of the size of f:
\* max(100, file_size / 16384)
Allowance(f) ==
    IF metas[f].file_size \div 16384 > 100 THEN metas[f].file_size \div 16384 ELSE 100

\* C28: a metadata object made by Apply, in LogAndApply or in Recover,
\* starts with allowed_seeks = max(100, file_size / 16384) whatever charges
\* an earlier object of the number had received, and each charge takes one
\* seek from it; on a Version without a pending candidate the charge that
\* is the allowance-th against the object (the 100th below 1,638,400 bytes)
\* makes the file file_to_compact, and no earlier charge does.
C28_FreshAllowanceThenExhausted ==
    ret.op # "none" =>
       LET f == SeekFile(Mem)
           V == versions[vset.current_]
       IN  /\ metas[f].allowed_seeks = Allowance(f) - ret.charged
           /\ metas[f].file_size < 1638400 => Allowance(f) = 100
           /\ V.file_to_compact # 0 =>
                V.file_to_compact = f /\ ret.charged >= Allowance(f)
           /\ ret.result => ret.charged >= Allowance(f)
           /\ (ret.op = "UpdateStats" /\ PreV.file_to_compact = 0
                 /\ ret.charged = Allowance(f)) =>
                ret.result /\ V.file_to_compact = f

\* The table's object was made by a trivial move after the earlier object
\* had been charged, and its 100th charge has made it file_to_compact
C28_Witness ==
    /\ ret.op = "UpdateStats" /\ ret.result /\ ret.worn
    /\ ret.charged = 100
    /\ SeekLevel(Mem) = 1
    /\ versions[vset.current_].file_to_compact = SeekFile(Mem)

----------------------------------------------------------------------------
(* PickCompaction called again and again while current_ stays: no           *)
(* compaction is run and no edit applied between the picks.                  *)

MaxRoundFiles == 4
MaxRoundPicks == 5

AddRoundTable == AddTableOn(0 .. 2, MaxRoundFiles, [l \in Levels |-> TableSizes(l)])

\* R is [M, c] as PickCompaction gives it; picks is the record of the picks
\* made so far on this Version
PickedAgain(R, level, picks) ==
    IF R.M.asserts # {} THEN Abort(R.M)
    ELSE /\ SetMem(R.M)
         /\ ret' = [op |-> "PickCompaction", pre |-> Mem, c |-> R.c,
                    picks |-> Append(picks,
                                [inputs |-> Range(Val(R.c).inputs[0]),
                                 after |-> R.M.vset.compact_pointer_[level]])]
         /\ UNCHANGED <<disk, call, readers, phase>>

\* A size-triggered PickCompaction on the Version of the picks before
RepeatPick ==
    /\ phase = "open"
    /\ ScoreAtLeastOne(versions[vset.current_].compaction_score)
    /\ ret.op = "PickCompaction" => Len(ret.picks) < MaxRoundPicks
    /\ PickedAgain(PickCompaction(Mem), versions[vset.current_].compaction_level,
                   IF ret.op = "PickCompaction" THEN ret.picks ELSE <<>>)

NextRound == AddRoundTable \/ RepeatPick

SpecRound == InitPick /\ [][NextRound]_vars

\* The files of the level the picks are made at
RoundFiles == PreV.files[PreV.compaction_level]

\* No file of the level has its largest key past pointer ptr: the next pick
\* wraps around
WrapsAfter(ptr) ==
    \A i \in 1 .. Len(RoundFiles) : Compare(PreF[RoundFiles[i]].largest, Val(ptr)) <= 0

\* C29: a size-triggered PickCompaction puts into inputs[0] the first file
\* of the chosen level whose largest key is past compact_pointer[level], the
\* first file of the level when the pointer is empty or no file is past it.
\* With current_ unchanged the pointer grows strictly from one pick to the
\* next unless the next pick wraps around, and any run of as many picks as
\* the level has files has every file of the level in some inputs[0].
C29_PicksRoundRobin ==
    ret.op = "PickCompaction" =>
       /\ Val(ret.c).level = PreV.compaction_level
       /\ SizePicked \in Range(Val(ret.c).inputs[0])
       /\ \A i \in 1 .. Len(ret.picks) - 1 :
             ~WrapsAfter(ret.picks[i].after) =>
                Compare(Val(ret.picks[i + 1].after), Val(ret.picks[i].after)) > 0
       /\ \A i \in 1 .. Len(ret.picks) :
             i + Len(RoundFiles) - 1 <= Len(ret.picks) =>
                UNION { ret.picks[j].inputs : j \in i .. i + Len(RoundFiles) - 1 }
                   = Range(RoundFiles)

\* Three files of level 1 picked one after the other, and the fourth pick
\* back at the files of the first
C29_Witness ==
    /\ ret.op = "PickCompaction"
    /\ PreV.compaction_level = 1
    /\ Len(RoundFiles) = 3
    /\ Len(ret.picks) = 4
    /\ \A i \in 1 .. 3 : Cardinality(ret.picks[i].inputs) = 1
    /\ ret.picks[1].inputs # ret.picks[2].inputs
    /\ ret.picks[2].inputs # ret.picks[3].inputs
    /\ ret.picks[4].inputs = ret.picks[1].inputs

----------------------------------------------------------------------------
(* The compact pointer at the return of PickCompaction and CompactRange.     *)

\* The largest internal key over the files of set S
LargestOver(S) ==
    LET f == CHOOSE g \in S :
                \A h \in S : Compare(PreF[g].largest, PreF[h].largest) >= 0
    IN  PreF[f].largest

\* C30: when PickCompaction or CompactRange returns a compaction,
\* compact_pointer_[level] is the largest internal key over the final
\* inputs[0], and the compaction's edit carries that pointer for the level
\* and no other; nothing has been executed or applied by then.
C30_PointerAdvancedAtPlanning ==
    (ret.op \in {"PickCompaction", "CompactRange"} /\ ~IsNull(ret.c)) =>
       LET c == Val(ret.c)
       IN  /\ vset.current_ = ret.pre.vset.current_
           /\ versions[vset.current_].files = PreV.files
           /\ vset.compact_pointer_[c.level]
                 = Some(LargestOver(Range(c.inputs[0])))
           /\ \E i \in 1 .. Len(c.edit.compact_pointers) :
                 c.edit.compact_pointers[i][1] = c.level
           /\ \A i \in 1 .. Len(c.edit.compact_pointers) :
                 c.edit.compact_pointers[i]
                    = <<c.level, LargestOver(Range(c.inputs[0]))>>

\* CompactRange has returned a compaction whose inputs[0] SetupOtherInputs
\* has grown past the largest key of the list it was given
C30_Witness ==
    /\ ret.op = "CompactRange" /\ ~IsNull(ret.c)
    /\ Range(Val(ret.c).inputs[0]) # Range(ret.chosen)
    /\ LargestOver(Range(Val(ret.c).inputs[0])) # LargestOver(Range(ret.chosen))
    /\ vset.compact_pointer_[ret.level]
          = Some(LargestOver(Range(Val(ret.c).inputs[0])))

----------------------------------------------------------------------------
(* Compaction::ShouldStopBefore, asked with rising keys within one           *)
(* compaction of level 0 whose grandparents are the files of level 2.        *)

MaxStopFiles == 4
MaxStopCalls == 3

\* The loop counting the files skipped by the first call as well
RECURSIVE ShouldStopLoop_CountFirst(_, _, _)
ShouldStopLoop_CountFirst(F, c, internal_key) ==
    IF /\ c.grandparent_index < Len(c.grandparents)
       /\ Compare(internal_key, F[c.grandparents[c.grandparent_index + 1]].largest) > 0
    THEN ShouldStopLoop_CountFirst(F,
            [c EXCEPT !.overlapped_bytes =
                          @ + F[c.grandparents[c.grandparent_index + 1]].file_size,
                      !.grandparent_index = @ + 1],
            internal_key)
    ELSE c

\* Lines 1639-1648: the scan past the grandparents that end before the key
RECURSIVE ShouldStopLoop(_, _, _)
ShouldStopLoop(F, c, internal_key) ==
    IF /\ c.grandparent_index < Len(c.grandparents)
       /\ Compare(internal_key, F[c.grandparents[c.grandparent_index + 1]].largest) > 0
    THEN ShouldStopLoop(F,
            [c EXCEPT !.overlapped_bytes =
                          IF c.seen_key
                          THEN @ + F[c.grandparents[c.grandparent_index + 1]].file_size
                          ELSE @,
                      !.grandparent_index = @ + 1],
            internal_key)
    ELSE c

\* Lines 1650-1659: c is the compaction after the scan
ShouldStopAnswer(c) ==
    IF c.overlapped_bytes > kMaxGrandParentOverlapBytes
    THEN [c |-> [c EXCEPT !.seen_key = TRUE, !.overlapped_bytes = 0], stop |-> TRUE]
    ELSE [c |-> [c EXCEPT !.seen_key = TRUE], stop |-> FALSE]

\* Compaction::ShouldStopBefore; gives [c, stop]
ShouldStopBefore(F, c, internal_key) ==
    ShouldStopAnswer(ShouldStopLoop(F, c, internal_key))

AddStopTable ==
    AddTableOn({0, 2}, MaxStopFiles, [l \in Levels |-> TableSizes(l)])

\* CompactRange(0, NULL, NULL); ret keeps the compaction, the keys asked,
\* the answers, and grandparent_index and overlapped_bytes after every call
BeginStopCompaction ==
    /\ phase = "open" /\ ret.op = "none"
    /\ ~IsNull(CompactRange(Mem, 0, Null, Null).c)
    /\ SetMem(CompactRange(Mem, 0, Null, Null).M)
    /\ ret' = [op |-> "outputs", c |-> Val(CompactRange(Mem, 0, Null, Null).c),
               keys |-> <<>>, answers |-> <<>>, indexes |-> <<>>, bytes |-> <<>>]
    /\ UNCHANGED <<disk, call, readers, phase>>

\* R is [c, stop] as ShouldStopBefore gives it for key
StopAnswered(key, R) ==
    /\ ret' = [ret EXCEPT !.c = R.c,
                          !.keys = Append(@, key),
                          !.answers = Append(@, R.stop),
                          !.indexes = Append(@, R.c.grandparent_index),
                          !.bytes = Append(@, R.c.overlapped_bytes)]
    /\ UNCHANGED <<vset, versions, metas, alloc, asserts, disk, call, readers, phase>>

\* The merge hands ShouldStopBefore keys that do not decrease
AskShouldStop ==
    /\ phase = "open" /\ ret.op = "outputs"
    /\ Len(ret.keys) < MaxStopCalls
    /\ \E u \in 1 .. MaxCompactKey + 1, t \in {0, MaxTag} :
          /\ Len(ret.keys) > 0 => Compare(IKey(u, t), ret.keys[Len(ret.keys)]) >= 0
          /\ StopAnswered(IKey(u, t), ShouldStopBefore(metas, ret.c, IKey(u, t)))

NextStop == AddStopTable \/ BeginStopCompaction \/ AskShouldStop

SpecStop == InitPick /\ [][NextStop]_vars

\* The grandparents whose largest key is below key
EndBefore(key) ==
    { j \in 1 .. Len(ret.c.grandparents) :
         Compare(metas[ret.c.grandparents[j]].largest, key) < 0 }

\* The bytes of the grandparents that call i skipped
SkippedBytes(i) ==
    BytesOf({ ret.c.grandparents[j] :
                j \in EndBefore(ret.keys[i])
                        \ (IF i = 1 THEN {} ELSE EndBefore(ret.keys[i - 1])) })

\* The bytes skipped by the calls up to call i since the last true answer,
\* those of the first call left out
RECURSIVE SkippedSinceStop(_)
SkippedSinceStop(i) ==
    IF i = 1 THEN 0
    ELSE (IF i = 2 \/ ret.answers[i - 1] THEN 0 ELSE SkippedSinceStop(i - 1))
         + SkippedBytes(i)

\* C31: for ShouldStopBefore calls with non-decreasing keys within one
\* compaction, a call returns true exactly when the grandparent files
\* skipped by it and by the calls since the last true return, the first
\* call's not counted, hold more than kMaxGrandParentOverlapBytes; the first
\* call never returns true; a true return leaves overlapped_bytes at zero;
\* grandparent_index never decreases nor exceeds the number of grandparents.
C31_StopAfterSkippedBytes ==
    ret.op = "outputs" =>
       /\ \A i \in 1 .. Len(ret.keys) :
             /\ ret.answers[i] <=> SkippedSinceStop(i) > kMaxGrandParentOverlapBytes
             /\ ret.answers[i] => ret.bytes[i] = 0
             /\ ~ret.answers[i] => ret.bytes[i] = SkippedSinceStop(i)
             /\ ret.indexes[i] = Cardinality(EndBefore(ret.keys[i]))
             /\ ret.indexes[i] <= Len(ret.c.grandparents)
       /\ Len(ret.keys) > 0 => ~ret.answers[1]
       /\ \A i \in 1 .. Len(ret.keys) - 1 : ret.indexes[i] <= ret.indexes[i + 1]

\* The first call skipped a grandparent without counting it, the second
\* skipped one and answered false, the third skipped one more and answered
\* true
C31_Witness ==
    /\ ret.op = "outputs"
    /\ Len(ret.keys) = 3
    /\ ret.indexes = <<1, 2, 3>>
    /\ ret.answers = <<FALSE, FALSE, TRUE>>
    /\ ret.bytes[2] > 0 /\ ret.bytes[3] = 0

----------------------------------------------------------------------------
(* The level Finalize stores, as PickCompaction uses it.                     *)

\* C32: in every Version that Finalize has processed compaction_level lies
\* in 0..L-2, and the file list of that level is not empty whenever
\* compaction_score >= 1; so a size-triggered PickCompaction passes its two
\* assertions on the level and returns a compaction of that level.
C32_FinalizedLevelUsable ==
    /\ LET V == versions[vset.current_]
       IN  /\ V.compaction_level \in 0 .. kNumLevels - 2
           /\ ScoreAtLeastOne(V.compaction_score) => V.files[V.compaction_level] # <<>>
    /\ asserts \cap {"level >= 0", "level+1 < config::kNumLevels"} = {}
    /\ (ret.op = "PickCompaction" /\ SizeTrigger) =>
          /\ ~IsNull(ret.c)
          /\ Val(ret.c).level = PreV.compaction_level
          /\ Val(ret.c).level + 1 < kNumLevels
          /\ Val(ret.c).inputs[0] # <<>>

\* A size-triggered pick has returned a compaction of level 1 while the
\* last level holds a table
C32_Witness ==
    /\ ret.op = "PickCompaction" /\ SizeTrigger /\ ~IsNull(ret.c)
    /\ PreV.compaction_level = 1
    /\ PreV.files[kNumLevels - 1] # <<>>

----------------------------------------------------------------------------
(* A Get on current_, the UpdateStats call with its stats, and the           *)
(* PickCompaction that follows, with tables on level 0 and on the two last   *)
(* levels.                                                                   *)

MaxSeekFiles == 3

AddSeekTable ==
    /\ call.pc = "idle"
    /\ AddTableOn({0, kNumLevels - 2, kNumLevels - 1}, MaxSeekFiles,
                  [l \in Levels |-> { FlushSize }])

\* R is [M, c] as PickCompaction gives it after the charge; get is what the
\* Get returned, pre the memory between UpdateStats and PickCompaction
SeekPicked(R, M, get) ==
    IF R.M.asserts # {} THEN Abort(R.M)
    ELSE /\ SetMem(R.M)
         /\ ret' = [op |-> "PickCompaction", pre |-> M, c |-> R.c, get |-> get]
         /\ UNCHANGED <<disk, call, readers, phase>>

\* The caller of Get hands the stats to UpdateStats of the Version that
\* served the Get, and the background thread asks for a compaction
ChargeAndPick ==
    /\ phase = "open" /\ ret.op = "Get"
    /\ SeekPicked(PickCompaction(UpdateStats(Mem, vset.current_,
                     [seek_file |-> ret.seek_file,
                      seek_file_level |-> ret.seek_file_level])),
                  UpdateStats(Mem, vset.current_,
                     [seek_file |-> ret.seek_file,
                      seek_file_level |-> ret.seek_file_level]),
                  ret)

NextSeek == AddSeekTable \/ GetBegin \/ GetProbe \/ ChargeAndPick

SpecSeek == InitPick /\ [][NextSeek]_vars

\* seek_file at seek_file_level, or file_to_compact at
\* file_to_compact_level: file f is none, or a file of level l of Version V
\* and l is not the last level
OnLevelWithNext(V, f, l) ==
    f # 0 => (l \in 0 .. kNumLevels - 2 /\ f \in Range(V.files[l]))

\* C33: a seek_file that Get records is a file of the Version that served
\* the Get, on seek_file_level, and that level is at most L-2; so the
\* file_to_compact of a Version is a file of it on file_to_compact_level,
\* and a seek-triggered PickCompaction plans on that level, below which a
\* level exists.
C33_SeekFileAboveLastLevel ==
    /\ ret.op = "Get" =>
          OnLevelWithNext(versions[vset.current_], ret.seek_file, ret.seek_file_level)
    /\ call.pc = "get" =>
          OnLevelWithNext(versions[vset.current_], call.seek_file, call.seek_file_level)
    /\ OnLevelWithNext(versions[vset.current_],
                       versions[vset.current_].file_to_compact,
                       versions[vset.current_].file_to_compact_level)
    /\ (ret.op = "PickCompaction" /\ ~SizeTrigger /\ SeekTrigger) =>
          /\ ~IsNull(ret.c)
          /\ Val(ret.c).level = PreV.file_to_compact_level
          /\ Val(ret.c).level + 1 < kNumLevels
          /\ PreV.file_to_compact \in Range(Val(ret.c).inputs[0])

\* A Get has probed a file of level L-2 and then one of the last level, and
\* the pick that followed plans the file of level L-2
C33_Witness ==
    /\ ret.op = "PickCompaction" /\ ~IsNull(ret.c)
    /\ Len(ret.get.probed) = 2
    /\ ret.get.probed[2].level = kNumLevels - 1
    /\ Val(ret.c).level = kNumLevels - 2
    /\ Val(ret.c).inputs[0] = <<ret.get.seek_file>>

----------------------------------------------------------------------------
(* The level+1 inputs of the compactions of SpecRange.                       *)

\* A compaction that PickCompaction or CompactRange has returned
PlannedHere == ret.op \in {"PickCompaction", "CompactRange"} /\ ~IsNull(ret.c)

\* C34: when SetupOtherInputs has returned, with or without the expansion,
\* inputs[1] lists, once each, the level+1 files of the input Version whose
\* user-key range meets the user-key range spanned by the final inputs[0],
\* and no other file.
C34_ParentsOfFinalInputs ==
    PlannedHere =>
       /\ Range(Val(ret.c).inputs[1]) = Parents(Range(Val(ret.c).inputs[0]))
       /\ Len(Val(ret.c).inputs[1]) = Cardinality(Range(Val(ret.c).inputs[1]))

\* SetupOtherInputs was given one level-0 file by CompactRange and has adopted
\* the expansion, and inputs[1] holds a file
C34_Witness ==
    /\ ret.op = "CompactRange" /\ ~IsNull(ret.c)
    /\ Len(ret.chosen) = 1
    /\ Len(Val(ret.c).inputs[0]) > 1
    /\ Val(ret.c).inputs[1] # <<>>

----------------------------------------------------------------------------
(* The reference a Compaction holds on its input Version, from planning to   *)
(* destruction, while later edits install newer Versions.                    *)

MaxHoldFiles == 2
MaxHoldInstalls == 2
MaxReleases == 2

AddHoldTable == AddTableOn(0 .. 1, MaxHoldFiles, [l \in Levels |-> TableSizes(l)])

\* R is [M, c] as the planner gives it for a compaction.  v and files are
\* current_ and its file lists at planning, released counts the
\* ReleaseInputs calls, installs the LogAndApply calls since, and alive
\* tells that the Compaction is not destroyed
Held(R) ==
    /\ ~IsNull(R.c)
    /\ IF R.M.asserts # {} THEN Abort(R.M)
       ELSE /\ SetMem(R.M)
            /\ ret' = [op |-> "held", pre |-> Mem, c |-> Val(R.c),
                       v |-> vset.current_, files |-> versions[vset.current_].files,
                       released |-> 0, installs |-> 0, alive |-> TRUE]
            /\ UNCHANGED <<disk, call, readers, phase>>

PlanHeld ==
    /\ phase = "open" /\ ret.op = "none"
    /\ \/ Held(PickCompaction(Mem))
       \/ \E level \in 0 .. 1 : Held(CompactRange(Mem, level, Null, Null))

\* The field input_version_ after ReleaseInputs, kept as it was
InputsDropped_Kept(c) == c

\* Line 1664: input_version_ = NULL
InputsDropped(c) == [c EXCEPT !.input_version = 0]

\* M is the memory after a call on the Compaction, c the Compaction
HeldOn(M, c, released, installs, alive) ==
    IF M.asserts # {} THEN Abort(M)
    ELSE /\ SetMem(M)
         /\ ret' = [ret EXCEPT !.c = c, !.released = released,
                               !.installs = installs, !.alive = alive]
         /\ UNCHANGED <<disk, call, readers, phase>>

CallReleaseInputs ==
    /\ phase = "open" /\ ret.op = "held" /\ ret.alive
    /\ ret.released < MaxReleases
    /\ HeldOn(ReleaseInputs(Mem, ret.c), InputsDropped(ret.c),
              ret.released + 1, ret.installs, TRUE)

\* Compaction::~Compaction
DestroyCompaction(M, c) == IF c.input_version # 0 THEN Unref(M, c.input_version) ELSE M

DeleteCompaction ==
    /\ phase = "open" /\ ret.op = "held" /\ ret.alive
    /\ HeldOn(DestroyCompaction(Mem, ret.c), ret.c, ret.released, ret.installs, FALSE)

\* The edits installed while the Compaction lives: an empty one, and the
\* deletion of a file of current_
LaterEdits ==
    {EmptyEdit} \cup
    { DeleteFile(EmptyEdit, l, metas[f].number) :
        <<l, f>> \in { <<l, f>> \in Levels \X DOMAIN metas :
                          f \in Range(versions[vset.current_].files[l]) } }

\* R is [M, D] after LogAndApply
LaterInstalled(R) ==
    IF R.M.asserts # {} THEN Abort(R.M)
    ELSE /\ SetMem(R.M)
         /\ disk' = R.D
         /\ ret' = [ret EXCEPT !.installs = @ + 1]
         /\ UNCHANGED <<call, readers, phase>>

InstallLater ==
    /\ phase = "open" /\ ret.op = "held" /\ ret.installs < MaxHoldInstalls
    /\ vset.descriptor_log_ # 0
         => Len(disk.manifests[vset.descriptor_log_].recs) < MaxRecords
    /\ \E edit \in LaterEdits : LaterInstalled(LogAndApplyOK(Mem, disk, edit))

NextHold == AddHoldTable \/ PlanHeld \/ CallReleaseInputs \/ DeleteCompaction
               \/ InstallLater

SpecHold == InitPick /\ [][NextHold]_vars

\* The Compaction of ret holds its reference
Holding == ret.alive /\ ret.released = 0

\* C35: a Compaction that PickCompaction or CompactRange returns holds one
\* reference on the Version that was current at planning.  While it is
\* held, that Version is in the live list with the file lists and the files
\* it had, whatever newer Versions are installed; the first ReleaseInputs
\* call, or else the destructor, gives it up, and no further call gives up
\* another: every live Version has one reference when it is current_ and
\* one when it is the input of a Compaction holding it, and no assertion
\* fails.
C35_OneReferenceOnInputVersion ==
    ret.op = "held" =>
       /\ asserts = {} /\ phase = "open"
       /\ DOMAIN versions = Range(vset.dummy_versions_)
       /\ \A v \in DOMAIN versions :
             versions[v].refs = (IF v = vset.current_ THEN 1 ELSE 0)
                                  + (IF Holding /\ v = ret.v THEN 1 ELSE 0)
       /\ Holding =>
             /\ ret.c.input_version = ret.v
             /\ ret.v \in DOMAIN versions
             /\ versions[ret.v].files = ret.files
             /\ \A l \in Levels : \A f \in Range(ret.files[l]) :
                   /\ f \in DOMAIN metas /\ metas[f].refs >= 1
                   /\ [metas[f] EXCEPT !.refs = 0] = [ret.pre.metas[f] EXCEPT !.refs = 0]
       /\ (ret.alive /\ ret.released > 0) => ret.c.input_version = 0

\* Two newer Versions were installed while the reference was held, the
\* second without a file of the input Version; ReleaseInputs was then called
\* twice and the Compaction destroyed
C35_Witness ==
    /\ ret.op = "held" /\ ~ret.alive
    /\ ret.released = MaxReleases /\ ret.installs = MaxHoldInstalls
    /\ ret.v \notin DOMAIN versions
    /\ \E l \in Levels : Len(versions[vset.current_].files[l]) < Len(ret.files[l])

----------------------------------------------------------------------------
(* LogAndApply of edits with a compaction pointer, with calls into the       *)
(* environment that may fail.                                                *)

MaxPointerFiles == 2

AddPointerTable ==
    AddTableOn(0 .. 1, MaxPointerFiles, [l \in Levels |-> { FlushSize }])

\* The edits handed to LogAndApply: an empty one, and one compaction pointer
PointerEdits ==
    {EmptyEdit} \cup
    { SetCompactPointer(EmptyEdit, level, IKey(u, 1)) :
        <<level, u>> \in (0 .. 1) \X (1 .. MaxCompactKey) }

\* What the calls into the environment answer during one LogAndApply
EnvOutcomes ==
    [nwf : BOOLEAN, snapshot : BOOLEAN, write : BOOLEAN, sync : BOOLEAN,
     open : BOOLEAN, setcurrent : BOOLEAN]

\* LogAndApply from the opened manifest to its return with the outcomes o;
\* R is [M, D, call], the result [M, D, s] with s the Status returned
RECURSIVE RunWith(_, _)
RunWith(R, o) ==
    IF R.M.asserts # {} THEN [M |-> R.M, D |-> R.D, s |-> "aborted"]
    ELSE IF R.call.pc = "snapshot"
    THEN RunWith(LogAndApplySnapshot(R.M, R.D, R.call, o.snapshot), o)
    ELSE IF R.call.pc = "write"
    THEN RunWith(LogAndApplyWrite(R.M, R.D, R.call, o.write), o)
    ELSE IF R.call.pc = "sync"
    THEN RunWith(LogAndApplySync(R.M, R.D, R.call, o.sync, o.open), o)
    ELSE IF R.call.pc = "setcurrent"
    THEN RunWith(LogAndApplySetCurrent(R.M, R.D, R.call, o.setcurrent), o)
    ELSE [M |-> LogAndApplyInstall(R.M, R.D, R.call).M,
          D |-> LogAndApplyInstall(R.M, R.D, R.call).D,
          s |-> R.call.s]

\* R is [M, D, s] as LogAndApply leaves them
PointerReturned(R, edit) ==
    IF R.M.asserts # {} THEN Abort(R.M)
    ELSE /\ SetMem(R.M)
         /\ disk' = R.D
         /\ ret' = [op |-> "LogAndApply", pre |-> Mem, edit |-> edit, s |-> R.s]
         /\ UNCHANGED <<call, readers, phase>>

CallLogAndApply ==
    /\ phase = "open" /\ ret.op = "none"
    /\ \E edit \in PointerEdits, o \in EnvOutcomes :
          PointerReturned(RunWith(LogAndApplyBuild(Mem, disk, edit, o.nwf), o), edit)

NextPointer == AddPointerTable \/ CallLogAndApply

SpecPointer == InitPick /\ [][NextPointer]_vars

\* C36: a LogAndApply call that has returned a Status other than OK has left
\* compact_pointer_ of every level as it was before the call, also when the
\* edit carries a compaction pointer.
C36_FailureKeepsPointers ==
    (ret.op = "LogAndApply" /\ ret.s # "OK") =>
       vset.compact_pointer_ = ret.pre.vset.compact_pointer_

----------------------------------------------------------------------------
(* One Builder over current_, a sequence of edits applied to it, and the     *)
(* Version that SaveTo fills, installed as Recover installs it.              *)

MaxBuilderFiles == 2
MaxBuilderEdits == 2
MaxBuilderKey == 2

AddBuilderTable ==
    AddTableOn(0 .. 1, MaxBuilderFiles, [l \in Levels |-> { FlushSize }])

\* The edits applied: at most one deleted file of current_ and at most one
\* new file, of a number that current_ lists or of the next number
BuilderEdits ==
    LET dels == {{}} \cup { {p} : p \in PairsOf(Mem, vset.current_) }
        adds == {<<>>} \cup
                { <<<<level, number, lo, hi>>>> :
                    <<level, number, lo, hi>> \in
                       { q \in (0 .. 1) \X (3 .. vset.next_file_number_)
                                 \X (1 .. MaxBuilderKey) \X (1 .. MaxBuilderKey) :
                           q[3] <= q[4] } }
    IN  { IF a = <<>> THEN [EmptyEdit EXCEPT !.deleted_files = d]
          ELSE AddFile([EmptyEdit EXCEPT !.deleted_files = d], a[1][1], a[1][2],
                       FlushSize, IKey(a[1][3], 2), IKey(a[1][4], 1))
          : <<d, a>> \in dels \X adds }

\* builder.Apply(&edit) for each edit of the sequence: X is [M, B]
RECURSIVE ApplyAll(_, _, _)
ApplyAll(X, edits, i) ==
    IF i > Len(edits) THEN X
    ELSE ApplyAll(Apply(X, edits[i]), edits, i + 1)

\* M is the memory with the Version built from the edits in current_
BuilderSaved(M, edits) ==
    IF M.asserts # {} THEN Abort(M)
    ELSE /\ SetMem(M)
         /\ ret' = [op |-> "SaveTo", pre |-> Mem, edits |-> edits]
         /\ UNCHANGED <<disk, call, readers, phase>>

ApplyAndSave ==
    /\ phase = "open" /\ ret.op = "none"
    /\ \E n \in 1 .. MaxBuilderEdits :
       \E edits \in [1 .. n -> BuilderEdits] :
          BuilderSaved(
             AppendVersion(
                BuildFrom(ApplyAll(BuilderNew(NewVersion(Mem), vset.current_), edits, 1),
                          alloc.vid),
                alloc.vid),
             edits)

NextBuilder == AddBuilderTable \/ ApplyAndSave

SpecBuilder == InitPick /\ [][NextBuilder]_vars

\* Version V of the memory M lists no file number twice on a level
NumbersOnce(M, V) ==
    \A l \in Levels :
       \A i \in 1 .. Len(V.files[l]) : \A j \in 1 .. Len(V.files[l]) :
          i # j => M.metas[V.files[l][i]].number # M.metas[V.files[l][j]].number

\* C37: when the base Version lists each file number at most once on each
\* level, the Version that SaveTo fills after any sequence of edits was
\* applied to the Builder lists each file number at most once on each level.
C37_FileNumbersOnce ==
    (ret.op = "SaveTo" /\ NumbersOnce(ret.pre, PreV)) =>
       NumbersOnce(Mem, versions[vset.current_])

----------------------------------------------------------------------------
(* Compactions of a level above 0 whose neighbouring tables end and begin    *)
(* with entries of one user key.                                             *)

MaxBoundaryFiles == 3
MaxBoundaryKey == 2
MaxBoundaryTag == 2

\* An edit adds one table on level 1 or 2 whose smallest and largest key
\* carry any tag; LogAndApply asserts that its level stays ordered
AddBoundaryTable ==
    /\ phase = "open" /\ ret.op = "none"
    /\ vset.next_file_number_ < 3 + MaxBoundaryFiles
    /\ \E level \in 1 .. 2, size \in { FlushSize, kExpandedCompactionByteSizeLimit \div 2 } :
       \E lo \in 1 .. MaxBoundaryKey, hi \in 1 .. MaxBoundaryKey :
       \E ts \in 1 .. MaxBoundaryTag, tl \in 1 .. MaxBoundaryTag :
          /\ Compare(IKey(lo, ts), IKey(hi, tl)) <= 0
          /\ TableAdded(Edited(TakeFileNumbers(Mem, 1),
                 AddFile(EmptyEdit, level, vset.next_file_number_, size,
                         IKey(lo, ts), IKey(hi, tl))))

NextBoundary == AddBoundaryTable \/ AskCompactRange \/ DoPickCompaction

SpecBoundary == InitPick /\ [][NextBoundary]_vars

\* The level ordering invariant on the Version the planner looked at
PreOrdered == \A l \in 1 .. kNumLevels - 1 : NoOverlapInLevel(PreF, PreV.files[l])

\* C38: for a compaction of a level >= 1 that PickCompaction or CompactRange
\* returns over a Version whose levels above 0 are ordered, no file of the
\* level outside inputs[0] has a user-key range that shares a user key with
\* the user-key range of inputs[0].
C38_NoUserKeySplitAtLevel ==
    (PlannedHere /\ Val(ret.c).level >= 1 /\ PreOrdered) =>
       \A f \in Range(PreV.files[Val(ret.c).level]) \ Range(Val(ret.c).inputs[0]) :
          ~ /\ PreF[f].smallest.u <= Max({ PreF[g].largest.u : g \in Range(Val(ret.c).inputs[0]) })
            /\ PreF[f].largest.u >= -Max({ -PreF[g].smallest.u : g \in Range(Val(ret.c).inputs[0]) })

====
